---- MODULE Spec2Model ----
(***************************************************************************)
(* crustynab: the calendar week partitioner (src/calendar_weeks.rs), the   *)
(* ledger aggregation pipeline (src/report.rs), run() (src/main.rs) and    *)
(* the visual report (src/visual_report.rs).                               *)
(*                                                                         *)
(* A chrono::NaiveDate is the record [year, month, day]; its order is the  *)
(* lexicographic one and date arithmetic goes through the proleptic        *)
(* Gregorian day count, as chrono does.  An f64 display amount is the      *)
(* fraction [num, den] with den = 1000: `x as f64 / 1000.0` is the f64      *)
(* nearest to x / 1000, one distinct value per x for the amounts used.     *)
(* A sum of f64 amounts is the exact sum of the fractions: the rounding of *)
(* the additions is not modelled.                                          *)
(***************************************************************************)
EXTENDS Integers, Sequences, FiniteSets, TLC

(***************************************************************************)
(* Bounds                                                                  *)
(***************************************************************************)
\* the years MinYear..MaxYear hold a year of each length from each weekday,
\* and 2100, no leap year
MinYear ==
    2084

MaxYear ==
    2120

\* month_week_for_date is called on every day of MinYear..MaxDayYear
MaxDayYear ==
    2085

\* category groups in a ledger snapshot
MaxGroups ==
    2

\* categories in a ledger snapshot, over all its groups
MaxCategories ==
    3

\* transactions handed to transactions_to_polars
MaxTransactions ==
    2

\* subtransactions over all the transactions handed to transactions_to_polars
MaxSubTransactions ==
    2

\* rows of a transaction frame handed to relevant_transactions
MaxRows ==
    3

\* consecutive days, from 2024-02-27 on, that rows and window bounds are drawn from
NumDates ==
    5

\* categories handed to categories_to_polars in the report pipeline
MaxReportCategories ==
    2

\* rows of the transaction frame the report pipeline starts from
MaxReportRows ==
    2

\* longest colour string handed to darken_hex
MaxColorLen ==
    7

\* most rows of a report table handed to build_visual_report_html
MaxVisualRows ==
    3

(***************************************************************************)
(* chrono::NaiveDate                                                       *)
(***************************************************************************)
IsLeapYear(y) ==
    (y % 4 = 0 /\ y % 100 # 0) \/ y % 400 = 0

MonthLength(y, m) ==
    IF m = 2 THEN (IF IsLeapYear(y) THEN 29 ELSE 28)
    ELSE IF m \in {4, 6, 9, 11} THEN 30 ELSE 31

\* NaiveDate::from_ymd_opt(y, m, d).expect(..): the date, for a valid y-m-d
from_ymd(y, m, d) ==
    [year |-> y, month |-> m, day |-> d]

\* days from 1970-01-01 to the date (negative before it)
DaysFromEpoch(date) ==
    LET y   == IF date.month <= 2 THEN date.year - 1 ELSE date.year
        era == y \div 400
        yoe == y - era * 400
        mp  == (date.month + 9) % 12
        doy == (153 * mp + 2) \div 5 + date.day - 1
        doe == yoe * 365 + yoe \div 4 - yoe \div 100 + doy
    IN  era * 146097 + doe - 719468

\* the date that lies n days after 1970-01-01
DateFromEpoch(n) ==
    LET z   == n + 719468
        era == z \div 146097
        doe == z - era * 146097
        yoe == (doe - doe \div 1460 + doe \div 36524 - doe \div 146096) \div 365
        doy == doe - (365 * yoe + yoe \div 4 - yoe \div 100)
        mp  == (5 * doy + 2) \div 153
        d   == doy - (153 * mp + 2) \div 5 + 1
        m   == IF mp < 10 THEN mp + 3 ELSE mp - 9
        y   == yoe + era * 400 + (IF m <= 2 THEN 1 ELSE 0)
    IN  [year |-> y, month |-> m, day |-> d]

\* date + Duration::days(n)
AddDays(date, n) ==
    DateFromEpoch(DaysFromEpoch(date) + n)

\* (a - b).num_days()
NumDaysBetween(a, b) ==
    DaysFromEpoch(a) - DaysFromEpoch(b)

\* date.weekday().num_days_from_sunday(); 1970-01-01 was a Thursday
NumDaysFromSunday(date) ==
    (DaysFromEpoch(date) + 4) % 7

\* Ord for NaiveDate
DateLT(a, b) ==
    \/ a.year < b.year
    \/ a.year = b.year /\ a.month < b.month
    \/ a.year = b.year /\ a.month = b.month /\ a.day < b.day

DateLE(a, b) ==
    a = b \/ DateLT(a, b)

DateMax(a, b) ==
    IF DateLT(a, b) THEN b ELSE a

DateMin(a, b) ==
    IF DateLT(b, a) THEN b ELSE a

(***************************************************************************)
(* calendar_weeks.rs                                                       *)
(***************************************************************************)
\* MonthWeek::dates
dates(w) ==
    LET days == NumDaysBetween(w.week_end, w.week_start)
    IN  [i \in 1..(days + 1) |-> AddDays(w.week_start, i - 1)]

\* previous_sunday counting the weekday from Monday instead of Sunday
previous_sunday_from_monday(day) ==
    AddDays(day, 0 - ((NumDaysFromSunday(day) + 6) % 7))

previous_sunday(day) ==
    AddDays(day, 0 - NumDaysFromSunday(day))

week_days(week_start) ==
    [i \in 1..7 |-> AddDays(week_start, i - 1)]

\* Vec::sort_unstable on u32
RECURSIVE SortInts(_)
SortInts(s) ==
    IF Len(s) <= 1 THEN s
    ELSE LET rest == SortInts(Tail(s))
             lo   == SelectSeq(rest, LAMBDA x : x < Head(s))
             hi   == SelectSeq(rest, LAMBDA x : x >= Head(s))
         IN  lo \o <<Head(s)>> \o hi

\* Vec::dedup: drops every element equal to its predecessor
RECURSIVE Dedup(_)
Dedup(s) ==
    IF Len(s) <= 1 THEN s
    ELSE IF s[1] = s[2] THEN Dedup(Tail(s))
    ELSE <<s[1]>> \o Dedup(Tail(s))

\* split_by_month without the dedup
split_by_month_no_dedup(days) ==
    SortInts([i \in 1..Len(days) |-> days[i].month])

\* split_by_month with the months in descending order
split_by_month_descending(days) ==
    LET months == Dedup(SortInts([i \in 1..Len(days) |-> days[i].month]))
    IN  [i \in 1..Len(months) |-> months[Len(months) + 1 - i]]

split_by_month(days) ==
    LET months == [i \in 1..Len(days) |-> days[i].month]
    IN  Dedup(SortInts(months))

\* make_month_week that does not clip week_end to the month
make_month_week_unclipped_end(year, month, week_start, week_end, week_number) ==
    [month       |-> month,
     week_start  |-> DateMax(week_start, from_ymd(year, month, 1)),
     week_end    |-> week_end,
     week_number |-> week_number]

\* make_month_week that does not clip week_start to the month
make_month_week_unclipped_start(year, month, week_start, week_end, week_number) ==
    LET next_first    == IF month = 12 THEN from_ymd(year + 1, 1, 1)
                         ELSE from_ymd(year, month + 1, 1)
        days_in_month == AddDays(next_first, -1).day
        month_last    == from_ymd(year, month, days_in_month)
    IN  [month       |-> month,
         week_start  |-> week_start,
         week_end    |-> DateMin(week_end, month_last),
         week_number |-> week_number]

make_month_week(year, month, week_start, week_end, week_number) ==
    LET month_first   == from_ymd(year, month, 1)
        next_first    == IF month = 12 THEN from_ymd(year + 1, 1, 1)
                         ELSE from_ymd(year, month + 1, 1)
        days_in_month == AddDays(next_first, -1).day
        month_last    == from_ymd(year, month, days_in_month)
    IN  [month       |-> month,
         week_start  |-> DateMax(week_start, month_first),
         week_end    |-> DateMin(week_end, month_last),
         week_number |-> week_number]

\* the loop body numbering the weeks from 0
WindowSegments_zero_based(year, anchor_week_start, week_offset) ==
    LET week_number  == week_offset
        week_start   == AddDays(anchor_week_start, 7 * week_offset)
        week_end     == AddDays(week_start, 6)
        in_year_days == SelectSeq(week_days(week_start), LAMBDA d : d.year = year)
        months       == split_by_month(in_year_days)
    IN  [i \in 1..Len(months) |->
            make_month_week(year, months[i], week_start, week_end, week_number)]

\* the segments one iteration of the loop over week_offset pushes
WindowSegments(year, anchor_week_start, week_offset) ==
    LET week_number  == week_offset + 1
        week_start   == AddDays(anchor_week_start, 7 * week_offset)
        week_end     == AddDays(week_start, 6)
        in_year_days == SelectSeq(week_days(week_start), LAMBDA d : d.year = year)
        months       == split_by_month(in_year_days)
    IN  [i \in 1..Len(months) |->
            make_month_week(year, months[i], week_start, week_end, week_number)]

\* num_weeks without the + 1
num_weeks_one_short(year) ==
    LET first_day         == from_ymd(year, 1, 1)
        last_day          == from_ymd(year, 12, 31)
        anchor_week_start == previous_sunday(first_day)
        last_week_end     == AddDays(previous_sunday(last_day), 6)
    IN  NumDaysBetween(last_week_end, anchor_week_start) \div 7

num_weeks(year) ==
    LET first_day         == from_ymd(year, 1, 1)
        last_day          == from_ymd(year, 12, 31)
        anchor_week_start == previous_sunday(first_day)
        last_week_end     == AddDays(previous_sunday(last_day), 6)
    IN  (NumDaysBetween(last_week_end, anchor_week_start) \div 7) + 1

RECURSIVE PushWindows(_, _, _, _)
PushWindows(year, anchor_week_start, week_offset, n) ==
    IF week_offset >= n THEN <<>>
    ELSE WindowSegments(year, anchor_week_start, week_offset)
         \o PushWindows(year, anchor_week_start, week_offset + 1, n)

partition_year_into_month_weeks(year) ==
    LET anchor_week_start == previous_sunday(from_ymd(year, 1, 1))
    IN  PushWindows(year, anchor_week_start, 0, num_weeks(year))

month_weeks(year, month) ==
    SelectSeq(partition_year_into_month_weeks(year), LAMBDA w : w.month = month)

NoWeek ==
    [month |-> 0, week_start |-> from_ymd(0, 0, 0), week_end |-> from_ymd(0, 0, 0),
     week_number |-> 0]

\* month_week_for_date whose find only tests the start of the segment
month_week_for_date_start_only(day) ==
    LET hits == SelectSeq(month_weeks(day.year, day.month),
                          LAMBDA w : DateLE(w.week_start, day))
    IN  IF Len(hits) > 0 THEN [ok |-> TRUE, week |-> hits[1]]
        ELSE [ok |-> FALSE, week |-> NoWeek]

\* month_week_for_date whose find excludes the first day of the segment
month_week_for_date_strict(day) ==
    LET hits == SelectSeq(month_weeks(day.year, day.month),
                          LAMBDA w : DateLT(w.week_start, day) /\ DateLE(day, w.week_end))
    IN  IF Len(hits) > 0 THEN [ok |-> TRUE, week |-> hits[1]]
        ELSE [ok |-> FALSE, week |-> NoWeek]

\* Ok(w) is [ok |-> TRUE, week |-> w]; the anyhow error is [ok |-> FALSE, ..]
month_week_for_date(day) ==
    LET hits == SelectSeq(month_weeks(day.year, day.month),
                          LAMBDA w : DateLE(w.week_start, day) /\ DateLE(day, w.week_end))
    IN  IF Len(hits) > 0 THEN [ok |-> TRUE, week |-> hits[1]]
        ELSE [ok |-> FALSE, week |-> NoWeek]

(***************************************************************************)
(* report.rs                                                               *)
(***************************************************************************)
\* Option<T>
None ==
    [some |-> FALSE]

Some(x) ==
    [some |-> TRUE, val |-> x]

\* or_else on an Option
OrElse(a, b) ==
    IF a.some THEN a ELSE b

\* `x as f64 / 1000.0`: x thousandths as an amount in display units
Display(x) ==
    [num |-> x, den |-> 1000]

\* IndexMap::keys, in insertion order
Keys(watch_list) ==
    [i \in DOMAIN watch_list |-> watch_list[i].key]

\* collect() of a sequence into a HashSet
ToSet(s) ==
    {s[i] : i \in DOMAIN s}

\* get_missing_category_groups with the test of the filter inverted
get_missing_category_groups_inverted(groups, watch_list) ==
    LET available == {groups[i].name : i \in DOMAIN groups}
    IN  ToSet(SelectSeq(Keys(watch_list), LAMBDA name : name \in available))

get_missing_category_groups(groups, watch_list) ==
    LET available == {groups[i].name : i \in DOMAIN groups}
    IN  ToSet(SelectSeq(Keys(watch_list), LAMBDA name : name \notin available))

\* flat_map(|g| g.categories.iter()) over a sequence of groups
RECURSIVE FlatCategories(_)
FlatCategories(gs) ==
    IF gs = <<>> THEN <<>>
    ELSE Head(gs).categories \o FlatCategories(Tail(gs))

\* get_budget_id: the id of the first budget with the name
get_budget_id(budgets, budget_name) ==
    LET hits == SelectSeq(budgets, LAMBDA b : b.name = budget_name)
    IN  IF Len(hits) > 0 THEN Some(hits[1].id) ELSE None

\* get_categories_to_watch that watches nothing unless every key names a group
get_categories_to_watch_all_present(groups, watch_list) ==
    LET watched_names == ToSet(Keys(watch_list))
        watched       == SelectSeq(groups, LAMBDA g : g.name \in watched_names)
    IN  IF watched_names \subseteq {groups[i].name : i \in DOMAIN groups}
        THEN SelectSeq(FlatCategories(watched), LAMBDA c : ~c.hidden)
        ELSE <<>>

\* get_categories_to_watch without the filter on hidden
get_categories_to_watch_with_hidden(groups, watch_list) ==
    LET watched_names == ToSet(Keys(watch_list))
    IN  FlatCategories(SelectSeq(groups, LAMBDA g : g.name \in watched_names))

get_categories_to_watch(groups, watch_list) ==
    LET watched_names == ToSet(Keys(watch_list))
        watched       == SelectSeq(groups, LAMBDA g : g.name \in watched_names)
    IN  SelectSeq(FlatCategories(watched), LAMBDA c : ~c.hidden)

\* the `as i32` cast keeps the value: the day count of a NaiveDate (years within
\* +-262143) is below 2^31 in magnitude
date_to_polars_days(date) ==
    LET epoch == from_ymd(1970, 1, 1)
    IN  NumDaysBetween(date, epoch)

\* SubRow taking the amount of the parent transaction
SubRow_parent_amount(txn, sub) ==
    [date          |-> txn.date,
     amount        |-> Display(txn.amount),
     payee_name    |-> OrElse(sub.payee_name, txn.payee_name),
     category_name |-> sub.category_name.val]

\* the TransactionRow the closure of filter_map builds for one subtransaction
SubRow(txn, sub) ==
    [date          |-> txn.date,
     amount        |-> Display(sub.amount),
     payee_name    |-> OrElse(sub.payee_name, txn.payee_name),
     category_name |-> sub.category_name.val]

\* filter_map over the subtransactions: a row for each one with a category_name
RECURSIVE SubRows(_, _)
SubRows(txn, subs) ==
    IF subs = <<>> THEN <<>>
    ELSE (IF Head(subs).category_name.some THEN <<SubRow(txn, Head(subs))>> ELSE <<>>)
         \o SubRows(txn, Tail(subs))

OwnRow(txn) ==
    [date          |-> txn.date,
     amount        |-> Display(txn.amount),
     payee_name    |-> txn.payee_name,
     category_name |-> txn.category_name.val]

\* expand_transaction that falls back on the transaction's own category when
\* no subtransaction has one
expand_transaction_fallback(txn) ==
    IF SubRows(txn, txn.subtransactions) # <<>>
    THEN SubRows(txn, txn.subtransactions)
    ELSE IF txn.category_name.some THEN <<OwnRow(txn)>>
    ELSE <<>>

\* expand_transaction that looks at the transaction's own category first
expand_transaction_own_first(txn) ==
    IF txn.category_name.some THEN <<OwnRow(txn)>>
    ELSE SubRows(txn, txn.subtransactions)

expand_transaction(txn) ==
    IF txn.subtransactions # <<>>
    THEN SubRows(txn, txn.subtransactions)
    ELSE IF txn.category_name.some THEN <<OwnRow(txn)>>
    ELSE <<>>

\* flat_map(expand_transaction)
RECURSIVE ExpandAll(_)
ExpandAll(txns) ==
    IF txns = <<>> THEN <<>>
    ELSE expand_transaction(Head(txns)) \o ExpandAll(Tail(txns))

\* the DataFrame built from the rows: one record per row, the date column
\* holding the day count
RowsToFrame(rows) ==
    [i \in DOMAIN rows |->
        [date          |-> date_to_polars_days(rows[i].date),
         amount        |-> rows[i].amount,
         payee_name    |-> rows[i].payee_name,
         category_name |-> rows[i].category_name]]

transactions_to_polars(txns) ==
    RowsToFrame(ExpandAll(txns))

\* the Date column is cast to Int32, its physical type, and compared with the
\* day counts of the bounds

\* relevant_transactions with a strict lower bound
relevant_transactions_strict(tf, start_date, end_date) ==
    LET start == date_to_polars_days(start_date)
        end   == date_to_polars_days(end_date)
    IN  SelectSeq(tf, LAMBDA r : r.date > start /\ r.date <= end)

relevant_transactions(tf, start_date, end_date) ==
    LET start == date_to_polars_days(start_date)
        end   == date_to_polars_days(end_date)
    IN  SelectSeq(tf, LAMBDA r : r.date >= start /\ r.date <= end)

\* the bytes of the UTF-8 encoding of the names a ledger snapshot is drawn from
Utf8(s) ==
    CASE s = "Essentials" -> <<69, 115, 115, 101, 110, 116, 105, 97, 108, 115>>
      [] s = "Fun" -> <<70, 117, 110>>
      [] s = "Total" -> <<84, 111, 116, 97, 108>>
      [] s = "Uncategorized" -> <<85, 110, 99, 97, 116, 101, 103, 111, 114, 105, 122, 101, 100>>
      [] s = "Utilities" -> <<85, 116, 105, 108, 105, 116, 105, 101, 115>>
      [] s = "bills" -> <<98, 105, 108, 108, 115>>
      [] s = "Groceries" -> <<71, 114, 111, 99, 101, 114, 105, 101, 115>>
      [] s = "Rent" -> <<82, 101, 110, 116>>
      [] s = "Travel" -> <<84, 114, 97, 118, 101, 108>>
      [] s = "dining" -> <<100, 105, 110, 105, 110, 103>>

\* Ord for str: lexicographic on the bytes, a proper prefix first
RECURSIVE BytesLT(_, _)
BytesLT(a, b) ==
    IF b = <<>> THEN FALSE
    ELSE IF a = <<>> THEN TRUE
    ELSE IF Head(a) # Head(b) THEN Head(a) < Head(b)
    ELSE BytesLT(Tail(a), Tail(b))

StrLT(a, b) ==
    BytesLT(Utf8(a), Utf8(b))

StrLE(a, b) ==
    a = b \/ StrLT(a, b)

\* f64 addition of two display amounts, as the exact sum of the thousandths
AddF(a, b) ==
    [num |-> a.num + b.num, den |-> 1000]

\* lit(0.0), and the sum of an empty column
ZeroF ==
    Display(0)

\* col(c).sum() over the rows of a frame
RECURSIVE SumCol(_, _)
SumCol(frame, c) ==
    IF frame = <<>> THEN ZeroF
    ELSE AddF(Head(frame)[c], SumCol(Tail(frame), c))

\* the row of the CategoryFrame built for one category
CategoryRow(c) ==
    [category_name       |-> c.name,
     category_group_name |-> IF c.category_group_name.some
                             THEN c.category_group_name.val
                             ELSE "Uncategorized",
     budgeted            |-> Display(c.budgeted),
     balance             |-> Display(c.balance),
     goal_cadence        |-> IF c.goal_target.some /\ c.goal_cadence = Some(1)
                             THEN "monthly"
                             ELSE "annual"]

\* categories_to_polars that labels by goal_cadence alone
categories_to_polars_cadence_only(categories) ==
    [i \in DOMAIN categories |->
        [CategoryRow(categories[i]) EXCEPT
            !.goal_cadence = IF categories[i].goal_cadence = Some(1)
                             THEN "monthly"
                             ELSE "annual"]]

categories_to_polars(categories) ==
    [i \in DOMAIN categories |-> CategoryRow(categories[i])]

\* the bijections of 1..n
Bijections(n) ==
    {p \in [1..n -> 1..n] : \A i, j \in 1..n : i # j => p[i] # p[j]}

\* the order of two rows on the columns by, the first column first
RECURSIVE KeysLE(_, _, _)
KeysLE(a, b, by) ==
    IF by = <<>> THEN TRUE
    ELSE \/ StrLT(a[Head(by)], b[Head(by)])
         \/ /\ a[Head(by)] = b[Head(by)]
            /\ KeysLE(a, b, Tail(by))

\* LazyFrame::sort(by, SortMultipleOptions::default()): ascending on the
\* columns, the order of rows with equal keys left open (maintain_order is
\* false)
SortBy(frame, by) ==
    {s \in {[i \in DOMAIN frame |-> frame[p[i]]] : p \in Bijections(Len(frame))} :
        \A i \in 1..(Len(s) - 1) : KeysLE(s[i], s[i + 1], by)}

\* filter(is_in(names)), group_by(category_name), agg(sum(amount) as spent):
\* the category names that have a row, and the sum for such a name
SpentKeys(transactions, category_names) ==
    {transactions[i].category_name : i \in DOMAIN transactions} \cap category_names

SpentOf(transactions, name) ==
    SumCol(SelectSeq(transactions, LAMBDA r : r.category_name = name), "amount")

\* the row the left join, fill_null and select make of one category row
ReportRow(c, transactions, category_names) ==
    [category_group_name |-> c.category_group_name,
     category_name       |-> c.category_name,
     budgeted            |-> c.budgeted,
     spent               |-> IF c.category_name \in SpentKeys(transactions, category_names)
                             THEN SpentOf(transactions, c.category_name)
                             ELSE ZeroF,
     balance             |-> c.balance,
     goal_cadence        |-> c.goal_cadence]

\* build_report_table without the filter on the watched names
build_report_table_unfiltered(categories, transactions, category_names) ==
    LET all_names == {transactions[i].category_name : i \in DOMAIN transactions}
    IN  SortBy([i \in DOMAIN categories |->
                   ReportRow(categories[i], transactions, all_names)],
               <<"category_group_name", "category_name">>)

\* build_report_table with an inner join in place of the left join
build_report_table_inner_join(categories, transactions, category_names) ==
    LET matched == SelectSeq(categories, LAMBDA c :
                       c.category_name \in SpentKeys(transactions, category_names))
    IN  SortBy([i \in DOMAIN matched |->
                   ReportRow(matched[i], transactions, category_names)],
               <<"category_group_name", "category_name">>)

\* build_report_table sorting on category_group_name alone
build_report_table_group_only(categories, transactions, category_names) ==
    SortBy([i \in DOMAIN categories |->
               ReportRow(categories[i], transactions, category_names)],
           <<"category_group_name">>)

\* the tables build_report_table can return: one for each order the sort may
\* leave rows with equal keys in
build_report_table(categories, transactions, category_names) ==
    SortBy([i \in DOMAIN categories |->
               ReportRow(categories[i], transactions, category_names)],
           <<"category_group_name", "category_name">>)

\* the names in ascending order
RECURSIVE SortNames(_)
SortNames(S) ==
    IF S = {} THEN <<>>
    ELSE LET m == CHOOSE x \in S : \A y \in S : StrLE(x, y)
         IN  <<m>> \o SortNames(S \ {m})

\* group_by(category_group_name), agg of the three sums, sort: one row for
\* each group name of the report table, ascending
GroupTotals(report_table) ==
    LET names == SortNames({report_table[i].category_group_name : i \in DOMAIN report_table})
    IN  [k \in DOMAIN names |->
            LET of_group == SelectSeq(report_table,
                                      LAMBDA r : r.category_group_name = names[k])
            IN  [category_group_name |-> names[k],
                 budgeted            |-> SumCol(of_group, "budgeted"),
                 spent               |-> SumCol(of_group, "spent"),
                 balance             |-> SumCol(of_group, "balance")]]

\* OverallTotal over the rows with a non-zero spent only
OverallTotal_spent_rows_only(report_table) ==
    LET shown == SelectSeq(report_table, LAMBDA r : r.spent # Display(0))
    IN  [category_group_name |-> "Total",
         budgeted            |-> SumCol(shown, "budgeted"),
         spent               |-> SumCol(shown, "spent"),
         balance             |-> SumCol(shown, "balance")]

\* select(lit("Total"), the three sums): one row, also for an empty table
OverallTotal(report_table) ==
    [category_group_name |-> "Total",
     budgeted            |-> SumCol(report_table, "budgeted"),
     spent               |-> SumCol(report_table, "spent"),
     balance             |-> SumCol(report_table, "balance")]

\* build_category_group_totals_table whose group rows sum balance into spent
build_category_group_totals_table_wrong_column(report_table) ==
    [k \in DOMAIN GroupTotals(report_table) |->
        [GroupTotals(report_table)[k] EXCEPT !.spent = GroupTotals(report_table)[k].balance]]
    \o <<OverallTotal(report_table)>>

\* build_category_group_totals_table that sorts after the concat
build_category_group_totals_table_sorted_last(report_table) ==
    CHOOSE t \in SortBy(GroupTotals(report_table) \o <<OverallTotal(report_table)>>,
                        <<"category_group_name">>) :
        TRUE

\* build_category_group_totals_table whose overall row is missing for an empty
\* report table
build_category_group_totals_table_none_for_empty(report_table) ==
    IF report_table = <<>> THEN <<>>
    ELSE GroupTotals(report_table) \o <<OverallTotal(report_table)>>

\* concat([group_totals, overall_total]): the rows of the first, then the second
build_category_group_totals_table(report_table) ==
    GroupTotals(report_table) \o <<OverallTotal(report_table)>>

(***************************************************************************)
(* visual_report.rs.  A &str of ASCII characters is the sequence of its    *)
(* characters, each a string of length one; its len() is the length of the *)
(* sequence.                                                               *)
(***************************************************************************)
\* the characters to_digit(16) accepts, by value
HexDigits ==
    <<"0", "1", "2", "3", "4", "5", "6", "7", "8", "9", "a", "b", "c", "d", "e", "f">>

UpperHexDigits ==
    <<"A", "B", "C", "D", "E", "F">>

\* char::to_digit(16)
to_digit(c) ==
    IF \E i \in DOMAIN HexDigits : HexDigits[i] = c
    THEN Some((CHOOSE i \in DOMAIN HexDigits : HexDigits[i] = c) - 1)
    ELSE IF \E i \in DOMAIN UpperHexDigits : UpperHexDigits[i] = c
    THEN Some((CHOOSE i \in DOMAIN UpperHexDigits : UpperHexDigits[i] = c) + 9)
    ELSE None

\* the loop of from_str_radix over the digits: Err on a character that is no
\* digit and on a value above u8::MAX
RECURSIVE DigitsValue(_, _)
DigitsValue(digits, acc) ==
    IF digits = <<>> THEN Some(acc)
    ELSE IF ~to_digit(Head(digits)).some THEN None
    ELSE IF acc * 16 + to_digit(Head(digits)).val > 255 THEN None
    ELSE DigitsValue(Tail(digits), acc * 16 + to_digit(Head(digits)).val)

\* u8::from_str_radix(src, 16).ok(): Err on the empty string and on a lone
\* sign; a leading '+' is skipped; '-' is no digit of an unsigned type
from_str_radix(src) ==
    IF src = <<>> THEN None
    ELSE IF src = <<"+">> \/ src = <<"-">> THEN None
    ELSE IF Head(src) = "+" THEN DigitsValue(Tail(src), 0)
    ELSE DigitsValue(src, 0)

\* `(r as f64 * factor) as u8` for a factor given in hundredths, 0 <= factor
\* <= 100: the cast truncates.  The f64 product of 0.7 and 90, 170 or 180 lies
\* just below the integer
Darken(r, factor) ==
    IF factor = 70 /\ r \in {90, 170, 180}
    THEN (r * factor) \div 100 - 1
    ELSE (r * factor) \div 100

\* {:02x}
Hex02(v) ==
    <<HexDigits[(v \div 16) + 1], HexDigits[(v % 16) + 1]>>

darken_hex(color, factor) ==
    IF color = <<>> \/ Head(color) # "#" \/ Len(color) # 7
    THEN color
    ELSE LET r == from_str_radix(SubSeq(color, 2, 3))
             g == from_str_radix(SubSeq(color, 4, 5))
             b == from_str_radix(SubSeq(color, 6, 7))
         IN  IF r.some /\ g.some /\ b.some
             THEN <<"#">> \o Hex02(Darken(r.val, factor))
                         \o Hex02(Darken(g.val, factor))
                         \o Hex02(Darken(b.val, factor))
             ELSE color

\* -x
Neg(x) ==
    [num |-> -x.num, den |-> x.den]

\* (value * 100.0).round(): the hundredths nearest to num/den; den is a multiple
\* of 100.  round() takes a half away from zero, but the f64 product of a value
\* that is an exact half of a hundredth may lie on either side of the half: the
\* amounts of the model are no such halves
RoundCents(value) ==
    LET q == value.den \div 100
        a == IF value.num < 0 THEN -value.num ELSE value.num
        c == (2 * a + q) \div (2 * q)
    IN  IF value.num < 0 THEN -c ELSE c

\* format_currency: None is the empty String; otherwise the text is the sign,
\* the integer part format_with_commas groups by threes and the two decimals
format_currency(value, show_zero) ==
    LET rounded == RoundCents(value)
        abs_val == IF rounded < 0 THEN -rounded ELSE rounded
    IN  IF rounded = 0 /\ ~show_zero THEN None
        ELSE Some([negative |-> rounded < 0,
                   pounds   |-> abs_val \div 100,
                   pence    |-> abs_val % 100])

\* with_value_columns: planned is budgeted for an annual row and 12 * budgeted
\* otherwise, per_month is planned / 12, remaining is balance
with_value_columns(df) ==
    [i \in DOMAIN df |->
        LET is_annual == df[i].goal_cadence = "annual"
            planned   == IF is_annual THEN df[i].budgeted.num ELSE df[i].budgeted.num * 12
        IN  [category_name       |-> df[i].category_name,
             category_group_name |-> df[i].category_group_name,
             budgeted            |-> df[i].budgeted,
             spent               |-> df[i].spent,
             balance             |-> df[i].balance,
             goal_cadence        |-> df[i].goal_cadence,
             planned             |-> Display(planned),
             per_month           |-> [num |-> planned, den |-> 12000],
             remaining           |-> df[i].balance,
             is_annual           |-> is_annual]]

\* the cells of the <tr> row_html writes
row_html(data) ==
    LET show_values == data.show_period_values \/ data.is_total
    IN  [class_name      |-> IF data.is_total THEN "total" ELSE "group",
         row_style       |-> data.color,
         annual_style    |-> IF data.is_annual THEN Some(darken_hex(data.color, 70)) ELSE None,
         category        |-> data.category,
         planned         |-> format_currency(data.planned, data.is_total),
         per_month       |-> format_currency(data.per_month, data.is_total),
         spent           |-> format_currency(Neg(data.spent), show_values),
         remaining_value |-> IF data.is_total \/ ~show_values THEN None
                             ELSE format_currency(data.remaining, show_values)]

\* Series::sum of column c of a frame with value columns, in the unit of c
RECURSIVE SumNum(_, _)
SumNum(frame, c) ==
    IF frame = <<>> THEN 0
    ELSE Head(frame)[c].num + SumNum(Tail(frame), c)

\* filter(col("category_group_name").eq(lit(group_name)))
OfGroup(df, group_name) ==
    SelectSeq(df, LAMBDA r : r.category_group_name = group_name)

\* group_planned, group_per_month, group_spent, group_remaining: the sums of
\* one group over the rows of report_df
GroupSums(report_df, group_name) ==
    LET group_values == with_value_columns(OfGroup(report_df, group_name))
    IN  [planned   |-> [num |-> SumNum(group_values, "planned"), den |-> 1000],
         per_month |-> [num |-> SumNum(group_values, "per_month"), den |-> 12000],
         spent     |-> [num |-> SumNum(group_values, "spent"), den |-> 1000],
         remaining |-> [num |-> SumNum(group_values, "remaining"), den |-> 1000]]

\* the rows pushed for one entry of group_colors: none when the group has no
\* row in report_df; otherwise a row for each row of the display frame, by
\* category_name, then the row "Total <group>".  The text of the category cell
\* is the sequence of its words
GroupBlock(report_df, display_df, group_name, color) ==
    IF OfGroup(report_df, group_name) = <<>> THEN {<<>>}
    ELSE {[i \in DOMAIN display_group_df |->
              LET v == with_value_columns(display_group_df)[i]
              IN  row_html([category           |-> <<v.category_name>>,
                            planned            |-> v.planned,
                            per_month          |-> v.per_month,
                            spent              |-> v.spent,
                            remaining          |-> v.remaining,
                            color              |-> color,
                            is_total           |-> FALSE,
                            show_period_values |-> v.spent # ZeroF,
                            is_annual          |-> v.is_annual])]
          \o <<row_html([category           |-> <<"Total", group_name>>,
                         planned            |-> GroupSums(report_df, group_name).planned,
                         per_month          |-> GroupSums(report_df, group_name).per_month,
                         spent              |-> GroupSums(report_df, group_name).spent,
                         remaining          |-> GroupSums(report_df, group_name).remaining,
                         color              |-> darken_hex(color, 85),
                         is_total           |-> TRUE,
                         show_period_values |-> TRUE,
                         is_annual          |-> FALSE])>> :
          display_group_df \in SortBy(OfGroup(display_df, group_name), <<"category_name">>)}

\* the loop over group_colors: the rows pushed, for each order the sorts may give
RECURSIVE GroupBlocks(_, _, _)
GroupBlocks(report_df, display_df, group_colors) ==
    IF group_colors = <<>> THEN {<<>>}
    ELSE {a \o b :
             a \in GroupBlock(report_df, display_df,
                               Head(group_colors).key, Head(group_colors).value),
             b \in GroupBlocks(report_df, display_df, Tail(group_colors))}

\* total_planned, total_per_month, total_spent, total_remaining after the loop
RECURSIVE TotalOver(_, _, _)
TotalOver(report_df, group_colors, c) ==
    IF group_colors = <<>> THEN 0
    ELSE GroupSums(report_df, Head(group_colors).key)[c].num
         + TotalOver(report_df, Tail(group_colors), c)

\* the document: the week label, the year of the column heads and the rows of
\* the table body, the row "Total" last unless no row was pushed
VisualBody(report_df, display_df, group_colors, week_label, planned_year) ==
    LET total == row_html(
            [category           |-> <<"Total">>,
             planned            |-> [num |-> TotalOver(report_df, group_colors, "planned"),
                                     den |-> 1000],
             per_month          |-> [num |-> TotalOver(report_df, group_colors, "per_month"),
                                     den |-> 12000],
             spent              |-> [num |-> TotalOver(report_df, group_colors, "spent"),
                                     den |-> 1000],
             remaining          |-> [num |-> TotalOver(report_df, group_colors, "remaining"),
                                     den |-> 1000],
             color              |-> <<"#", "b", "7", "b", "7", "b", "7">>,
             is_total           |-> TRUE,
             show_period_values |-> TRUE,
             is_annual          |-> FALSE])
    IN  {[week_label   |-> week_label,
          planned_year |-> planned_year,
          body_rows    |-> IF rows # <<>> THEN Append(rows, total) ELSE rows] :
            rows \in GroupBlocks(report_df, display_df, group_colors)}

\* build_visual_report_html that sums the rows it displays
build_visual_report_html_sums_displayed(report_table, group_colors, week_label, planned_year, show_all_rows) ==
    LET display_df == IF show_all_rows THEN report_table
                      ELSE SelectSeq(report_table, LAMBDA r : r.spent # ZeroF)
    IN  VisualBody(display_df, display_df, group_colors, week_label, planned_year)

build_visual_report_html(report_table, group_colors, week_label, planned_year, show_all_rows) ==
    LET display_df == IF show_all_rows THEN report_table
                      ELSE SelectSeq(report_table, LAMBDA r : r.spent # ZeroF)
    IN  VisualBody(report_table, display_df, group_colors, week_label, planned_year)

(***************************************************************************)
(* State.  Each group of functions is put under call on its own; the       *)
(* variables of the groups not under call stay idle.                       *)
(***************************************************************************)
VARIABLES
    \* calendar_weeks.rs
    cal_fn,      \* which function is invoked
    cal_year,    \* the year argument (partition_year_into_month_weeks, month_weeks)
    cal_month,   \* the month argument (month_weeks), 0 when none
    cal_day,     \* the date argument (month_week_for_date)
    cal_pc,      \* "idle", "call" before the function ran, "ret" after
    weeks,       \* value returned by partition_year_into_month_weeks / month_weeks
    found,       \* value returned by month_week_for_date
    \* get_missing_category_groups, get_categories_to_watch
    groups,       \* Vec<CategoryGroup>, as fetched
    watch_list,   \* IndexMap<String, String>: sequence of [key, value], keys distinct
    missing,      \* value returned by get_missing_category_groups
    to_watch,     \* value returned by get_categories_to_watch
    watch_pc,     \* "idle", "call", "missing" (first function returned), "ret"
    \* transactions_to_polars
    transactions,   \* &[Transaction]
    txn_frame,      \* the rows of the TransactionFrame returned
    txn_pc,         \* "idle", "call", "ret"
    \* relevant_transactions
    rows,          \* the TransactionRow values the frame is built from
    start_date,    \* window start
    end_date,      \* window end
    filtered,      \* the rows of the TransactionFrame returned
    filter_pc,     \* "idle", "call", "ret"
    \* categories_to_polars, build_report_table, build_category_group_totals_table
    rep_categories,     \* &[Category] handed to categories_to_polars
    rep_names,          \* category_names: &HashSet<String>
    categories_frame,   \* the rows of the CategoryFrame
    report_table,       \* the rows of the report table
    totals_table,       \* the rows of the group-totals table
    rep_pc,             \* "idle", "call", "cats", "report", "ret"
    \* run()
    cfg,           \* &Config
    api,           \* what the data source holds: budgets, category groups, transactions
    run_pc,        \* "idle", "budgets", "groups", "month", "output", "done", "err"
    events,        \* the data-source calls and core steps run() has made, in order
    budget_id,     \* Option<String>
    stderr,        \* lines written to standard error
    stdout,        \* what was printed on standard output, in order
    files,         \* the files written, in order
    run_result,    \* None while running, then Some of Ok(()) or of the error
    \* darken_hex
    hex_color,     \* color: &str, a sequence of characters
    hex_factor,    \* factor, in hundredths
    hex_out,       \* the String returned
    hex_pc,        \* "idle", "call", "ret"
    \* build_visual_report_html
    vis_report,      \* report_table: the rows of the report table
    vis_colors,      \* group_colors: IndexMap<String, String>, sequence of [key, value]
    vis_show_all,    \* show_all_rows
    vis_html,        \* the document returned
    vis_pc           \* "idle", "call", "ret"

cal_vars ==
    <<cal_fn, cal_year, cal_month, cal_day, cal_pc, weeks, found>>

watch_vars ==
    <<groups, watch_list, missing, to_watch, watch_pc>>

txn_vars ==
    <<transactions, txn_frame, txn_pc>>

filter_vars ==
    <<rows, start_date, end_date, filtered, filter_pc>>

report_vars ==
    <<rep_categories, rep_names, categories_frame, report_table, totals_table, rep_pc>>

run_vars ==
    <<cfg, api, run_pc, events, budget_id, stderr, stdout, files, run_result>>

hex_vars ==
    <<hex_color, hex_factor, hex_out, hex_pc>>

vis_vars ==
    <<vis_report, vis_colors, vis_show_all, vis_html, vis_pc>>

vars ==
    <<cal_vars, watch_vars, txn_vars, filter_vars, report_vars, run_vars,
      hex_vars, vis_vars>>

\* what an action of one group leaves alone
cal_others ==
    <<watch_vars, txn_vars, filter_vars, report_vars, run_vars, hex_vars,
      vis_vars>>

watch_others ==
    <<cal_vars, txn_vars, filter_vars, report_vars, run_vars, hex_vars,
      vis_vars>>

txn_others ==
    <<cal_vars, watch_vars, filter_vars, report_vars, run_vars, hex_vars,
      vis_vars>>

filter_others ==
    <<cal_vars, watch_vars, txn_vars, report_vars, run_vars, hex_vars,
      vis_vars>>

hex_others ==
    <<cal_vars, watch_vars, txn_vars, filter_vars, report_vars, run_vars,
      vis_vars>>

vis_others ==
    <<cal_vars, watch_vars, txn_vars, filter_vars, report_vars, run_vars, hex_vars>>

\* the report pipeline runs relevant_transactions on its transaction frame
report_others ==
    <<cal_vars, watch_vars, txn_vars, run_vars, hex_vars, vis_vars>>

(***************************************************************************)
(* The calendar API under call: one invocation of one of the three public  *)
(* functions, its arguments drawn from the bounded years.                  *)
(***************************************************************************)
\* the value of vis_html before build_visual_report_html returns
NoHtml ==
    [week_label |-> "", planned_year |-> 0, body_rows |-> <<>>]

\* the values of cfg and api while run() is not under call
NoConfig ==
    [budget_name               |-> "",
     category_group_watch_list |-> <<>>,
     resolution_date           |-> None,
     show_all_rows             |-> FALSE,
     output_format             |-> "none"]

NoApi ==
    [budgets |-> <<>>, category_groups |-> <<>>, transactions |-> <<>>]

Years ==
    MinYear..MaxYear

NoDate ==
    from_ymd(0, 0, 0)

MonthDays(y, m) ==
    {from_ymd(y, m, d) : d \in 1..MonthLength(y, m)}

YearDays(y) ==
    UNION {MonthDays(y, m) : m \in 1..12}

ValidDates ==
    UNION {YearDays(y) : y \in MinYear..MaxDayYear}

CalInit ==
    /\ cal_pc = "call"
    /\ weeks = <<>>
    /\ found = [ok |-> FALSE, week |-> NoWeek]
    /\ \/ /\ cal_fn = "partition_year_into_month_weeks"
          /\ cal_year \in Years
          /\ cal_month = 0
          /\ cal_day = NoDate
       \/ /\ cal_fn = "month_weeks"
          /\ cal_year \in Years
          /\ cal_month \in 1..12
          /\ cal_day = NoDate
       \/ /\ cal_fn = "month_week_for_date"
          /\ cal_day \in ValidDates
          /\ cal_year = cal_day.year
          /\ cal_month = cal_day.month
    \* watch-list resolution idle
    /\ watch_pc = "idle"
    /\ groups = <<>>
    /\ watch_list = <<>>
    /\ missing = {}
    /\ to_watch = <<>>
    \* transactions_to_polars idle
    /\ txn_pc = "idle"
    /\ transactions = <<>>
    /\ txn_frame = <<>>
    \* relevant_transactions idle
    /\ filter_pc = "idle"
    /\ rows = <<>>
    /\ start_date = NoDate
    /\ end_date = NoDate
    /\ filtered = <<>>
    \* report pipeline idle
    /\ rep_pc = "idle"
    /\ rep_categories = <<>>
    /\ rep_names = {}
    /\ categories_frame = <<>>
    /\ report_table = <<>>
    /\ totals_table = <<>>
    \* run() not under call
    /\ run_pc = "idle"
    /\ cfg = NoConfig
    /\ api = NoApi
    /\ events = <<>>
    /\ budget_id = None
    /\ stderr = <<>>
    /\ stdout = <<>>
    /\ files = <<>>
    /\ run_result = None
    \* darken_hex idle
    /\ hex_pc = "idle"
    /\ hex_color = <<>>
    /\ hex_factor = 0
    /\ hex_out = <<>>
    \* build_visual_report_html idle
    /\ vis_pc = "idle"
    /\ vis_report = <<>>
    /\ vis_colors = <<>>
    /\ vis_show_all = FALSE
    /\ vis_html = NoHtml

PartitionYear ==
    /\ cal_pc = "call"
    /\ cal_fn = "partition_year_into_month_weeks"
    /\ weeks' = partition_year_into_month_weeks(cal_year)
    /\ cal_pc' = "ret"
    /\ UNCHANGED <<cal_fn, cal_year, cal_month, cal_day, found, cal_others>>

MonthWeeks ==
    /\ cal_pc = "call"
    /\ cal_fn = "month_weeks"
    /\ weeks' = month_weeks(cal_year, cal_month)
    /\ cal_pc' = "ret"
    /\ UNCHANGED <<cal_fn, cal_year, cal_month, cal_day, found, cal_others>>

MonthWeekForDate ==
    /\ cal_pc = "call"
    /\ cal_fn = "month_week_for_date"
    /\ found' = month_week_for_date(cal_day)
    /\ cal_pc' = "ret"
    /\ UNCHANGED <<cal_fn, cal_year, cal_month, cal_day, weeks, cal_others>>

CalNext ==
    \/ PartitionYear
    \/ MonthWeeks
    \/ MonthWeekForDate

(***************************************************************************)
(* Watch-list resolution under call: a ledger snapshot and a watch-list,   *)
(* then get_missing_category_groups and get_categories_to_watch, in the    *)
(* order run() calls them.                                                 *)
(***************************************************************************)
GroupNames ==
    {"Essentials", "Fun"}

CategoryNames ==
    {"Groceries", "Rent"}

\* a category as enumerated; the id is set once the snapshot is whole
Categories ==
    [id : {0}, name : CategoryNames, hidden : BOOLEAN]

\* f[1] + .. + f[k]
RECURSIVE SumTo(_, _)
SumTo(f, k) ==
    IF k = 0 THEN 0
    ELSE SumTo(f, k - 1) + f[k]

\* the snapshot whose g-th group has the g-th name and the next counts[g] of
\* the categories; every category gets an id of its own
CategoryGroupsOf(names, counts, cats) ==
    [g \in DOMAIN names |->
        [name       |-> names[g],
         categories |-> [c \in 1..counts[g] |->
                            [cats[SumTo(counts, g - 1) + c] EXCEPT !.id = 10 * g + c]]]]

WatchLists ==
    {<<>>,
     <<[key |-> "Essentials", value |-> "#aaaaaa"]>>,
     <<[key |-> "Fun", value |-> "#bbbbbb"]>>,
     <<[key |-> "Essentials", value |-> "#aaaaaa"], [key |-> "Fun", value |-> "#bbbbbb"]>>,
     <<[key |-> "Fun", value |-> "#bbbbbb"], [key |-> "Essentials", value |-> "#aaaaaa"]>>}

WatchInit ==
    /\ watch_pc = "call"
    /\ \E g \in 0..MaxGroups :
          \E names \in [1..g -> GroupNames], counts \in [1..g -> 0..MaxCategories] :
              /\ SumTo(counts, g) <= MaxCategories
              /\ \E cats \in [1..SumTo(counts, g) -> Categories] :
                    groups = CategoryGroupsOf(names, counts, cats)
    /\ watch_list \in WatchLists
    /\ missing = {}
    /\ to_watch = <<>>
    \* no calendar function under call
    /\ cal_pc = "idle"
    /\ cal_fn = "none"
    /\ cal_year = 0
    /\ cal_month = 0
    /\ cal_day = NoDate
    /\ weeks = <<>>
    /\ found = [ok |-> FALSE, week |-> NoWeek]
    \* transactions_to_polars idle
    /\ txn_pc = "idle"
    /\ transactions = <<>>
    /\ txn_frame = <<>>
    \* relevant_transactions idle
    /\ filter_pc = "idle"
    /\ rows = <<>>
    /\ start_date = NoDate
    /\ end_date = NoDate
    /\ filtered = <<>>
    \* report pipeline idle
    /\ rep_pc = "idle"
    /\ rep_categories = <<>>
    /\ rep_names = {}
    /\ categories_frame = <<>>
    /\ report_table = <<>>
    /\ totals_table = <<>>
    \* run() not under call
    /\ run_pc = "idle"
    /\ cfg = NoConfig
    /\ api = NoApi
    /\ events = <<>>
    /\ budget_id = None
    /\ stderr = <<>>
    /\ stdout = <<>>
    /\ files = <<>>
    /\ run_result = None
    \* darken_hex idle
    /\ hex_pc = "idle"
    /\ hex_color = <<>>
    /\ hex_factor = 0
    /\ hex_out = <<>>
    \* build_visual_report_html idle
    /\ vis_pc = "idle"
    /\ vis_report = <<>>
    /\ vis_colors = <<>>
    /\ vis_show_all = FALSE
    /\ vis_html = NoHtml

GetMissingCategoryGroups ==
    /\ watch_pc = "call"
    /\ missing' = get_missing_category_groups(groups, watch_list)
    /\ watch_pc' = "missing"
    /\ UNCHANGED <<groups, watch_list, to_watch, watch_others>>

GetCategoriesToWatch ==
    /\ watch_pc = "missing"
    /\ to_watch' = get_categories_to_watch(groups, watch_list)
    /\ watch_pc' = "ret"
    /\ UNCHANGED <<groups, watch_list, missing, watch_others>>

WatchNext ==
    \/ GetMissingCategoryGroups
    \/ GetCategoriesToWatch

(***************************************************************************)
(* transactions_to_polars under call                                       *)
(***************************************************************************)
FirstDate ==
    from_ymd(2024, 2, 27)

\* NumDates consecutive days across the end of February 2024
DateSet ==
    {AddDays(FirstDate, k) : k \in 0..(NumDates - 1)}

SubTransactions ==
    [amount        : {-7000},
     payee_name    : {None, Some("Cafe")},
     category_name : {None, Some("Rent")}]

\* date, amount, payee_name and category_name of a transaction: each field
\* present and absent, on two dates
TransactionHead(date, amount, payee_name, category_name) ==
    [date          |-> date,
     amount        |-> amount,
     payee_name    |-> payee_name,
     category_name |-> category_name]

TransactionHeads ==
    {TransactionHead(FirstDate, -18500, Some("Shop"), Some("Groceries")),
     TransactionHead(AddDays(FirstDate, 3), -18500, None, Some("Groceries")),
     TransactionHead(FirstDate, -18500, None, None),
     TransactionHead(AddDays(FirstDate, 3), -18500, Some("Shop"), None)}

\* the transactions whose k-th one has the k-th head and the next counts[k] of
\* the subtransactions
TransactionsOf(heads, counts, subs) ==
    [k \in DOMAIN heads |->
        [date            |-> heads[k].date,
         amount          |-> heads[k].amount,
         payee_name      |-> heads[k].payee_name,
         category_name   |-> heads[k].category_name,
         subtransactions |-> [j \in 1..counts[k] |-> subs[SumTo(counts, k - 1) + j]]]]

TxnInit ==
    /\ txn_pc = "call"
    /\ \E n \in 0..MaxTransactions :
          \E heads \in [1..n -> TransactionHeads],
             counts \in [1..n -> 0..MaxSubTransactions] :
              /\ SumTo(counts, n) <= MaxSubTransactions
              /\ \E subs \in [1..SumTo(counts, n) -> SubTransactions] :
                    transactions = TransactionsOf(heads, counts, subs)
    /\ txn_frame = <<>>
    \* no calendar function under call
    /\ cal_pc = "idle"
    /\ cal_fn = "none"
    /\ cal_year = 0
    /\ cal_month = 0
    /\ cal_day = NoDate
    /\ weeks = <<>>
    /\ found = [ok |-> FALSE, week |-> NoWeek]
    \* watch-list resolution idle
    /\ watch_pc = "idle"
    /\ groups = <<>>
    /\ watch_list = <<>>
    /\ missing = {}
    /\ to_watch = <<>>
    \* relevant_transactions idle
    /\ filter_pc = "idle"
    /\ rows = <<>>
    /\ start_date = NoDate
    /\ end_date = NoDate
    /\ filtered = <<>>
    \* report pipeline idle
    /\ rep_pc = "idle"
    /\ rep_categories = <<>>
    /\ rep_names = {}
    /\ categories_frame = <<>>
    /\ report_table = <<>>
    /\ totals_table = <<>>
    \* run() not under call
    /\ run_pc = "idle"
    /\ cfg = NoConfig
    /\ api = NoApi
    /\ events = <<>>
    /\ budget_id = None
    /\ stderr = <<>>
    /\ stdout = <<>>
    /\ files = <<>>
    /\ run_result = None
    \* darken_hex idle
    /\ hex_pc = "idle"
    /\ hex_color = <<>>
    /\ hex_factor = 0
    /\ hex_out = <<>>
    \* build_visual_report_html idle
    /\ vis_pc = "idle"
    /\ vis_report = <<>>
    /\ vis_colors = <<>>
    /\ vis_show_all = FALSE
    /\ vis_html = NoHtml

TransactionsToPolars ==
    /\ txn_pc = "call"
    /\ txn_frame' = transactions_to_polars(transactions)
    /\ txn_pc' = "ret"
    /\ UNCHANGED <<transactions, txn_others>>

TxnNext ==
    TransactionsToPolars

(***************************************************************************)
(* relevant_transactions under call: a frame built from transaction rows   *)
(* and a window (start_date, end_date)                                     *)
(***************************************************************************)
RowKinds ==
    {[amount |-> Display(-18500), payee_name |-> Some("Shop"), category_name |-> "Groceries"],
     [amount |-> Display(2500), payee_name |-> None, category_name |-> "Rent"]}

TransactionRows ==
    {[date          |-> d,
      amount        |-> k.amount,
      payee_name    |-> k.payee_name,
      category_name |-> k.category_name] : d \in DateSet, k \in RowKinds}

FilterInit ==
    /\ filter_pc = "call"
    /\ \E n \in 0..MaxRows : rows \in [1..n -> TransactionRows]
    /\ start_date \in DateSet
    /\ end_date \in DateSet
    /\ filtered = <<>>
    \* no calendar function under call
    /\ cal_pc = "idle"
    /\ cal_fn = "none"
    /\ cal_year = 0
    /\ cal_month = 0
    /\ cal_day = NoDate
    /\ weeks = <<>>
    /\ found = [ok |-> FALSE, week |-> NoWeek]
    \* watch-list resolution idle
    /\ watch_pc = "idle"
    /\ groups = <<>>
    /\ watch_list = <<>>
    /\ missing = {}
    /\ to_watch = <<>>
    \* transactions_to_polars idle
    /\ txn_pc = "idle"
    /\ transactions = <<>>
    /\ txn_frame = <<>>
    \* report pipeline idle
    /\ rep_pc = "idle"
    /\ rep_categories = <<>>
    /\ rep_names = {}
    /\ categories_frame = <<>>
    /\ report_table = <<>>
    /\ totals_table = <<>>
    \* run() not under call
    /\ run_pc = "idle"
    /\ cfg = NoConfig
    /\ api = NoApi
    /\ events = <<>>
    /\ budget_id = None
    /\ stderr = <<>>
    /\ stdout = <<>>
    /\ files = <<>>
    /\ run_result = None
    \* darken_hex idle
    /\ hex_pc = "idle"
    /\ hex_color = <<>>
    /\ hex_factor = 0
    /\ hex_out = <<>>
    \* build_visual_report_html idle
    /\ vis_pc = "idle"
    /\ vis_report = <<>>
    /\ vis_colors = <<>>
    /\ vis_show_all = FALSE
    /\ vis_html = NoHtml

RelevantTransactions ==
    /\ filter_pc = "call"
    /\ filtered' = relevant_transactions(RowsToFrame(rows), start_date, end_date)
    /\ filter_pc' = "ret"
    /\ UNCHANGED <<rows, start_date, end_date, filter_others>>

FilterNext ==
    RelevantTransactions

(***************************************************************************)
(* The report pipeline under call: categories_to_polars on a category      *)
(* list, relevant_transactions on a transaction frame, build_report_table  *)
(* on the two, build_category_group_totals_table on its result.            *)
(***************************************************************************)
Category(id, name, group, budgeted, balance, goal_cadence, goal_target) ==
    [id                  |-> id,
     name                |-> name,
     category_group_name |-> group,
     budgeted            |-> budgeted,
     balance             |-> balance,
     goal_cadence        |-> goal_cadence,
     goal_target         |-> goal_target,
     hidden              |-> FALSE]

\* categories of a ledger: names shared between groups, a category without
\* a group, a group named "Total", a group that sorts after "Total", two
\* categories with the same group and name, and the combinations of
\* goal_cadence and goal_target
CategoryKinds ==
    {Category(1, "Groceries", Some("Essentials"), 400000, 120000, Some(1), Some(400000)),
     Category(2, "Rent", Some("Essentials"), 1500000, 0, Some(1), None),
     Category(3, "dining", Some("Essentials"), 60000, -2500, None, Some(60000)),
     Category(4, "Groceries", Some("bills"), 50000, -40000, Some(12), Some(600000)),
     Category(5, "Rent", None, 0, 0, None, None),
     Category(6, "dining", Some("Total"), 30000, 10000, Some(1), Some(0)),
     Category(7, "Groceries", Some("Essentials"), 250000, 90000, Some(0), Some(250000))}

\* rows of a transaction frame: two dates, watched and unwatched categories
ReportTransactionRows ==
    {[date |-> FirstDate, amount |-> Display(-18500),
      payee_name |-> Some("Shop"), category_name |-> "Groceries"],
     [date |-> AddDays(FirstDate, 3), amount |-> Display(-4250),
      payee_name |-> None, category_name |-> "Groceries"],
     [date |-> AddDays(FirstDate, 3), amount |-> Display(2500),
      payee_name |-> Some("Landlord"), category_name |-> "Rent"],
     [date |-> FirstDate, amount |-> Display(-99000),
      payee_name |-> None, category_name |-> "Travel"]}

\* a window that holds both dates and one that holds the first only
ReportWindows ==
    {<<FirstDate, AddDays(FirstDate, 3)>>,
     <<FirstDate, AddDays(FirstDate, 2)>>}

ReportInit ==
    /\ rep_pc = "call"
    /\ \E n \in 0..MaxReportCategories : rep_categories \in [1..n -> CategoryKinds]
    \* the names of the categories, as run() passes them, or fewer
    /\ rep_names \in {{rep_categories[i].name : i \in DOMAIN rep_categories},
                      {rep_categories[i].name : i \in DOMAIN rep_categories} \ {"Groceries"}}
    /\ categories_frame = <<>>
    /\ report_table = <<>>
    /\ totals_table = <<>>
    \* the transaction frame and the window
    /\ filter_pc = "call"
    /\ \E n \in 0..MaxReportRows : rows \in [1..n -> ReportTransactionRows]
    /\ \E w \in ReportWindows : start_date = w[1] /\ end_date = w[2]
    /\ filtered = <<>>
    \* no calendar function under call
    /\ cal_pc = "idle"
    /\ cal_fn = "none"
    /\ cal_year = 0
    /\ cal_month = 0
    /\ cal_day = NoDate
    /\ weeks = <<>>
    /\ found = [ok |-> FALSE, week |-> NoWeek]
    \* watch-list resolution idle
    /\ watch_pc = "idle"
    /\ groups = <<>>
    /\ watch_list = <<>>
    /\ missing = {}
    /\ to_watch = <<>>
    \* transactions_to_polars idle
    /\ txn_pc = "idle"
    /\ transactions = <<>>
    /\ txn_frame = <<>>
    \* run() not under call
    /\ run_pc = "idle"
    /\ cfg = NoConfig
    /\ api = NoApi
    /\ events = <<>>
    /\ budget_id = None
    /\ stderr = <<>>
    /\ stdout = <<>>
    /\ files = <<>>
    /\ run_result = None
    \* darken_hex idle
    /\ hex_pc = "idle"
    /\ hex_color = <<>>
    /\ hex_factor = 0
    /\ hex_out = <<>>
    \* build_visual_report_html idle
    /\ vis_pc = "idle"
    /\ vis_report = <<>>
    /\ vis_colors = <<>>
    /\ vis_show_all = FALSE
    /\ vis_html = NoHtml

CategoriesToPolars ==
    /\ rep_pc = "call"
    /\ categories_frame' = categories_to_polars(rep_categories)
    /\ rep_pc' = "cats"
    /\ UNCHANGED <<rep_categories, rep_names, report_table, totals_table,
                   filter_vars, report_others>>

BuildReportTable ==
    /\ rep_pc = "cats"
    /\ filter_pc = "ret"
    /\ report_table' \in build_report_table(categories_frame, filtered, rep_names)
    /\ rep_pc' = "report"
    /\ UNCHANGED <<rep_categories, rep_names, categories_frame, totals_table,
                   filter_vars, report_others>>

BuildCategoryGroupTotalsTable ==
    /\ rep_pc = "report"
    /\ totals_table' = build_category_group_totals_table(report_table)
    /\ rep_pc' = "ret"
    /\ UNCHANGED <<rep_categories, rep_names, categories_frame, report_table,
                   filter_vars, report_others>>

ReportNext ==
    \/ CategoriesToPolars
    \/ RelevantTransactions
    \/ BuildReportTable
    \/ BuildCategoryGroupTotalsTable

(***************************************************************************)
(* run() under call.  Each action is one call of the data source with the  *)
(* code that follows it up to the next call; the locals of run() are the   *)
(* variables of the functions it calls.  A LazyFrame is held as the rows   *)
(* its collect() gives.                                                    *)
(***************************************************************************)
\* anyhow::Result<()>
Ok ==
    [ok |-> TRUE, error |-> ""]

Err(msg) ==
    [ok |-> FALSE, error |-> msg]

\* the ? operator that lets run() go on after an Err
Try_ignoring(ok, next_pc) ==
    next_pc

\* the ? operator: run() goes on when the Result is Ok and returns when not
Try(ok, next_pc) ==
    IF ok THEN next_pc ELSE "err"

\* entries of events: a call of the data source with its outcome, a step of
\* the core, the lookup of the budget id
Call(op, ok) ==
    [kind |-> "call", op |-> op, ok |-> ok]

Core(op) ==
    [kind |-> "core", op |-> op, ok |-> TRUE]

Lookup(op) ==
    [kind |-> "lookup", op |-> op, ok |-> TRUE]

\* what lines 24-26 call, in order
BudgetsSteps(ok) ==
    IF ok THEN <<Call("get_budgets", TRUE), Lookup("get_budget_id")>>
    ELSE <<Call("get_budgets", FALSE)>>

\* lines 28-46 with the week resolved before the category groups are fetched
GroupsSteps_week_first(ok) ==
    IF ok THEN <<Core("month_week_for_date"),
                 Call("get_category_groups", TRUE),
                 Core("get_missing_category_groups"),
                 Core("get_categories_to_watch")>>
    ELSE <<Core("month_week_for_date"), Call("get_category_groups", FALSE)>>

\* what lines 28-46 call, in order
GroupsSteps(ok) ==
    IF ok THEN <<Call("get_category_groups", TRUE),
                 Core("get_missing_category_groups"),
                 Core("get_categories_to_watch"),
                 Core("month_week_for_date")>>
    ELSE <<Call("get_category_groups", FALSE)>>

\* what lines 56-77 call, in order
TransactionsSteps(ok) ==
    IF ok THEN <<Core("categories_to_polars"),
                 Call("get_transactions", TRUE),
                 Core("transactions_to_polars"),
                 Core("relevant_transactions"),
                 Core("build_report_table"),
                 Core("build_category_group_totals_table")>>
    ELSE <<Core("categories_to_polars"), Call("get_transactions", FALSE)>>

BudgetLists ==
    {<<>>,
     <<[id |-> "b-old", name |-> "Old"], [id |-> "b-home", name |-> "Home"]>>}

\* the category groups the data source holds: two groups with a hidden
\* category and a name shared between the groups, one group, none
Ledgers ==
    {<<[name       |-> "Essentials",
        categories |-> <<Category(11, "Groceries", Some("Essentials"),
                                  400000, 120000, Some(1), Some(400000)),
                         [Category(12, "Rent", Some("Essentials"),
                                   1500000, 0, Some(1), None) EXCEPT !.hidden = TRUE]>>],
       [name       |-> "Fun",
        categories |-> <<Category(21, "dining", Some("Fun"), 60000, -2500, None, Some(60000)),
                         Category(22, "Groceries", Some("Fun"), 50000, 50000, None, None)>>]>>,
     <<[name       |-> "Fun",
        categories |-> <<Category(21, "dining", Some("Fun"), 60000, -2500, None, Some(60000))>>]>>,
     <<>>}

\* the transactions the data source holds: none, or one inside the week of
\* 2024-02-27, a split one and an unwatched one in the week of 2024-03-01
LedgerTransactions ==
    {<<>>,
     <<[date |-> FirstDate, amount |-> -18500, payee_name |-> Some("Shop"),
        category_name |-> Some("Groceries"), subtransactions |-> <<>>],
       [date |-> AddDays(FirstDate, 3), amount |-> -10000, payee_name |-> Some("Market"),
        category_name |-> Some("Split"),
        subtransactions |-> <<[amount |-> -7000, payee_name |-> None,
                               category_name |-> Some("dining")],
                              [amount |-> -3000, payee_name |-> None,
                               category_name |-> None]>>],
       [date |-> AddDays(FirstDate, 3), amount |-> -99000, payee_name |-> None,
        category_name |-> Some("Travel"), subtransactions |-> <<>>]>>}

OutputFormats ==
    {"polars_print", "csv_print", "csv_file", "visual_file"}

\* the date chrono::Local::now() gives
Today ==
    {FirstDate}

\* what get_month_category answers for a category id: the category of that id
MonthCategory(source, category_id) ==
    LET all == FlatCategories(source.category_groups)
    IN  SelectSeq(all, LAMBDA c : c.id = category_id)[1]

\* variables run() never assigns
run_others ==
    <<cal_fn, cal_year, cal_month, cal_pc, weeks, watch_list, watch_pc, txn_pc,
      rows, filter_pc, rep_pc, hex_vars, vis_vars>>

\* locals of run(), by the step that assigns them
week_locals ==
    <<cal_day, found, start_date, end_date>>

watch_locals ==
    <<groups, missing, to_watch>>

table_locals ==
    <<categories_frame, transactions, txn_frame, filtered, rep_names, report_table,
      totals_table>>

RunInit ==
    /\ run_pc = "budgets"
    /\ cfg \in [budget_name               : {"Home"},
                category_group_watch_list : WatchLists,
                resolution_date           : {None, Some(AddDays(FirstDate, 3))},
                show_all_rows             : BOOLEAN,
                output_format             : OutputFormats]
    /\ api \in [budgets         : BudgetLists,
                category_groups : Ledgers,
                transactions    : LedgerTransactions]
    /\ events = <<>>
    /\ budget_id = None
    /\ stderr = <<>>
    /\ stdout = <<>>
    /\ files = <<>>
    /\ run_result = None
    \* the locals, not yet assigned
    /\ cal_day = NoDate
    /\ found = [ok |-> FALSE, week |-> NoWeek]
    /\ start_date = NoDate
    /\ end_date = NoDate
    /\ groups = <<>>
    /\ missing = {}
    /\ to_watch = <<>>
    /\ rep_categories = <<>>
    /\ categories_frame = <<>>
    /\ transactions = <<>>
    /\ txn_frame = <<>>
    /\ filtered = <<>>
    /\ rep_names = {}
    /\ report_table = <<>>
    /\ totals_table = <<>>
    \* no function under call on its own
    /\ cal_pc = "idle"
    /\ cal_fn = "none"
    /\ cal_year = 0
    /\ cal_month = 0
    /\ weeks = <<>>
    /\ watch_pc = "idle"
    /\ watch_list = <<>>
    /\ txn_pc = "idle"
    /\ filter_pc = "idle"
    /\ rows = <<>>
    /\ rep_pc = "idle"
    \* darken_hex idle
    /\ hex_pc = "idle"
    /\ hex_color = <<>>
    /\ hex_factor = 0
    /\ hex_out = <<>>
    \* build_visual_report_html idle
    /\ vis_pc = "idle"
    /\ vis_report = <<>>
    /\ vis_colors = <<>>
    /\ vis_show_all = FALSE
    /\ vis_html = NoHtml

\* lines 24-26: get_budgets, get_budget_id
RunGetBudgets ==
    /\ run_pc = "budgets"
    /\ \E ok \in BOOLEAN :
          LET id == get_budget_id(api.budgets, cfg.budget_name)
          IN  /\ events' = events \o BudgetsSteps(ok)
              /\ budget_id' = IF ok THEN id ELSE budget_id
              /\ run_pc' = Try(ok, Try(id.some, "groups"))
              /\ run_result' = IF ~ok THEN Some(Err("get_budgets failed"))
                               ELSE IF ~id.some THEN Some(Err("no budget found with name"))
                               ELSE run_result
    /\ UNCHANGED <<cfg, api, stderr, stdout, files, week_locals, watch_locals,
                   rep_categories, table_locals, run_others>>

\* lines 28-48: get_category_groups, the warning, get_categories_to_watch,
\* month_week_for_date
RunGetCategoryGroups ==
    /\ run_pc = "groups"
    /\ \E ok \in BOOLEAN, today \in Today :
          LET category_groups     == api.category_groups
              missing_groups      == get_missing_category_groups(
                                         category_groups, cfg.category_group_watch_list)
              categories_to_watch == get_categories_to_watch(
                                         category_groups, cfg.category_group_watch_list)
              resolution_date     == IF cfg.resolution_date.some
                                     THEN cfg.resolution_date.val
                                     ELSE today
          IN  IF ok
              THEN \E report_week \in {month_week_for_date(resolution_date)} :
                   /\ events' = events \o GroupsSteps(TRUE)
                   /\ groups' = category_groups
                   /\ missing' = missing_groups
                   /\ stderr' = IF missing_groups # {}
                                THEN Append(stderr, [warning |-> "unknown category groups",
                                                     names   |-> SortNames(missing_groups)])
                                ELSE stderr
                   /\ to_watch' = categories_to_watch
                   /\ cal_day' = resolution_date
                   /\ found' = report_week
                   /\ start_date' = IF report_week.ok THEN report_week.week.week_start
                                    ELSE start_date
                   /\ end_date' = IF report_week.ok THEN report_week.week.week_end
                                  ELSE end_date
                   /\ run_pc' = Try(report_week.ok, "month")
                   /\ run_result' = IF report_week.ok THEN run_result
                                    ELSE Some(Err("no month week found"))
              ELSE /\ events' = events \o GroupsSteps(FALSE)
                   /\ run_pc' = Try(FALSE, "month")
                   /\ run_result' = Some(Err("get_category_groups failed"))
                   /\ UNCHANGED <<stderr, week_locals, watch_locals>>
    /\ UNCHANGED <<cfg, api, budget_id, stdout, files, rep_categories, table_locals,
                   run_others>>

\* lines 50-54: one turn of the map over categories_to_watch; collect() into
\* a Result stops at the first Err
RunGetMonthCategory ==
    /\ run_pc = "month"
    /\ Len(rep_categories) < Len(to_watch)
    /\ \E ok \in BOOLEAN :
          /\ events' = Append(events, Call("get_month_category", ok))
          /\ rep_categories' =
                 IF ok
                 THEN Append(rep_categories,
                             MonthCategory(api, to_watch[Len(rep_categories) + 1].id))
                 ELSE rep_categories
          /\ run_pc' = Try(ok, "month")
          /\ run_result' = IF ok THEN run_result
                           ELSE Some(Err("fetching month categories"))
    /\ UNCHANGED <<cfg, api, budget_id, stderr, stdout, files, week_locals,
                   watch_locals, table_locals, run_others>>

\* lines 56-77: categories_to_polars, get_transactions, the transaction
\* frame, the report table and the totals
RunGetTransactions ==
    /\ run_pc = "month"
    /\ Len(rep_categories) = Len(to_watch)
    /\ \E ok \in BOOLEAN :
          LET categories_budgeted == categories_to_polars(rep_categories)
              transactions_frame  == relevant_transactions(
                                         transactions_to_polars(api.transactions),
                                         start_date, end_date)
              category_names      == {rep_categories[i].name : i \in DOMAIN rep_categories}
          IN  /\ categories_frame' = categories_budgeted
              /\ IF ok
                 THEN /\ events' = events \o TransactionsSteps(TRUE)
                      /\ transactions' = api.transactions
                      /\ txn_frame' = transactions_to_polars(api.transactions)
                      /\ filtered' = transactions_frame
                      /\ rep_names' = category_names
                      /\ report_table' \in build_report_table(
                                               categories_budgeted, transactions_frame,
                                               category_names)
                      /\ totals_table' = build_category_group_totals_table(report_table')
                      /\ run_result' = run_result
                 ELSE /\ events' = events \o TransactionsSteps(FALSE)
                      /\ run_result' = Some(Err("get_transactions failed"))
                      /\ UNCHANGED <<transactions, txn_frame, filtered, rep_names,
                                     report_table, totals_table>>
              /\ run_pc' = Try(ok, "output")
    /\ UNCHANGED <<cfg, api, budget_id, stderr, stdout, files, week_locals,
                   watch_locals, rep_categories, run_others>>

\* report_table_display
DisplayRows ==
    IF cfg.show_all_rows THEN report_table
    ELSE SelectSeq(report_table, LAMBDA r : r.spent # ZeroF)

\* lines 79-157: the week header, then the output the format asks for; a
\* std::fs::write may fail
RunOutput ==
    /\ run_pc = "output"
    /\ \E written \in 0..2 :
          LET header == [kind        |-> "header",
                         week_number |-> found.week.week_number,
                         week_year   |-> found.week.week_start.year,
                         start       |-> start_date,
                         end         |-> end_date]
              table  == [kind |-> "table", rows |-> DisplayRows]
              totals == [kind |-> "totals", rows |-> totals_table]
              html   == [kind |-> "html", rows |-> report_table,
                         show_all_rows |-> cfg.show_all_rows]
              wanted == IF cfg.output_format = "csv_file"
                        THEN <<[path |-> "csv_output", content |-> table],
                               [path |-> "csv_output_category_group_totals",
                                content |-> totals]>>
                        ELSE IF cfg.output_format = "visual_file"
                        THEN <<[path |-> "visual_output", content |-> html]>>
                        ELSE <<>>
          IN  /\ written <= Len(wanted)
              /\ stdout' = IF cfg.output_format \in {"polars_print", "csv_print"}
                           THEN stdout \o <<header, table, totals>>
                           ELSE Append(stdout, header)
              /\ files' = files \o SubSeq(wanted, 1, written)
              /\ run_pc' = Try(written = Len(wanted), "done")
              /\ run_result' = IF written = Len(wanted) THEN Some(Ok)
                               ELSE Some(Err("writing file"))
    /\ UNCHANGED <<cfg, api, events, budget_id, stderr, week_locals, watch_locals,
                   rep_categories, table_locals, run_others>>

RunNext ==
    \/ RunGetBudgets
    \/ RunGetCategoryGroups
    \/ RunGetMonthCategory
    \/ RunGetTransactions
    \/ RunOutput

(***************************************************************************)
(* darken_hex under call                                                   *)
(***************************************************************************)
\* the characters the colours are built from: '#', the signs, a letter that is
\* a hex digit and one that is not
ColorChars ==
    {"#", "+", "-", "f", "g"}

\* colours named by the tests of visual_report.rs
TestColors ==
    {<<"#", "d", "f", "e", "7", "f", "5">>,
     <<"#", "f", "f", "f">>,
     <<"#", "F", "F", "F", "F", "F", "F">>,
     <<"#", "+", "1", "+", "2", "+", "3">>,
     <<"n", "o", "t", "-", "a", "-", "c", "o", "l", "o", "r">>}

\* the factors row_html and build_visual_report_html darken by
Factors ==
    {70, 85}

HexInit ==
    /\ hex_pc = "call"
    /\ \/ \E n \in 0..MaxColorLen : hex_color \in [1..n -> ColorChars]
       \/ hex_color \in TestColors
    /\ hex_factor = 0
    /\ hex_out = <<>>
    \* no calendar function under call
    /\ cal_pc = "idle"
    /\ cal_fn = "none"
    /\ cal_year = 0
    /\ cal_month = 0
    /\ cal_day = NoDate
    /\ weeks = <<>>
    /\ found = [ok |-> FALSE, week |-> NoWeek]
    \* watch-list resolution idle
    /\ watch_pc = "idle"
    /\ groups = <<>>
    /\ watch_list = <<>>
    /\ missing = {}
    /\ to_watch = <<>>
    \* relevant_transactions idle
    /\ filter_pc = "idle"
    /\ rows = <<>>
    /\ start_date = NoDate
    /\ end_date = NoDate
    /\ filtered = <<>>
    \* report pipeline idle
    /\ rep_pc = "idle"
    /\ rep_categories = <<>>
    /\ rep_names = {}
    /\ categories_frame = <<>>
    /\ report_table = <<>>
    /\ totals_table = <<>>
    \* run() not under call
    /\ run_pc = "idle"
    /\ cfg = NoConfig
    /\ api = NoApi
    /\ events = <<>>
    /\ budget_id = None
    /\ stderr = <<>>
    /\ stdout = <<>>
    /\ files = <<>>
    /\ run_result = None
    \* transactions_to_polars idle
    /\ txn_pc = "idle"
    /\ transactions = <<>>
    /\ txn_frame = <<>>
    \* build_visual_report_html idle
    /\ vis_pc = "idle"
    /\ vis_report = <<>>
    /\ vis_colors = <<>>
    /\ vis_show_all = FALSE
    /\ vis_html = NoHtml

DarkenHex ==
    /\ hex_pc = "call"
    /\ \E factor \in Factors :
          /\ hex_factor' = factor
          /\ hex_out' = darken_hex(hex_color, factor)
    /\ hex_pc' = "ret"
    /\ UNCHANGED <<hex_color, hex_others>>

HexNext ==
    DarkenHex

(***************************************************************************)
(* build_visual_report_html under call                                     *)
(***************************************************************************)
ReportRowOf(name, group, budgeted, spent, balance, cadence) ==
    [category_name       |-> name,
     category_group_name |-> group,
     budgeted            |-> Display(budgeted),
     spent               |-> Display(spent),
     balance             |-> Display(balance),
     goal_cadence        |-> cadence]

\* rows of a report table: with and without spend, monthly and annual, in two
\* coloured groups and in a group without colour, two of a group with one name
VisualRowKinds ==
    {ReportRowOf("Groceries", "Essentials", 50000, -10000, 30000, "monthly"),
     ReportRowOf("Rent", "Essentials", 20000, 0, 90000, "monthly"),
     ReportRowOf("Travel", "Essentials", 100000, -25000, 75000, "annual"),
     ReportRowOf("dining", "Fun", 10000, -4010, 6000, "annual"),
     ReportRowOf("Groceries", "Fun", 20000, 0, 17000, "annual"),
     ReportRowOf("Groceries", "Essentials", 30000, -2500, 0, "annual"),
     ReportRowOf("Travel", "Uncategorized", 5000, -1000, 4000, "monthly")}

GroupColorMaps ==
    {<<>>,
     <<[key |-> "Essentials", value |-> <<"#", "d", "f", "e", "7", "f", "5">>]>>,
     <<[key |-> "Fun", value |-> <<"#", "f", "4", "d", "c", "c", "b">>]>>,
     <<[key |-> "Essentials", value |-> <<"#", "d", "f", "e", "7", "f", "5">>],
       [key |-> "Fun", value |-> <<"#", "f", "4", "d", "c", "c", "b">>]>>,
     <<[key |-> "Fun", value |-> <<"#", "f", "f", "f">>],
       [key |-> "Essentials", value |-> <<"#", "d", "f", "e", "7", "f", "5">>]>>}

WeekLabel ==
    "Week 1"

PlannedYear ==
    2024

VisualInit ==
    /\ vis_pc = "call"
    /\ \E n \in 0..MaxVisualRows : vis_report \in [1..n -> VisualRowKinds]
    /\ vis_colors \in GroupColorMaps
    /\ vis_show_all \in BOOLEAN
    /\ vis_html = NoHtml
    \* no calendar function under call
    /\ cal_pc = "idle"
    /\ cal_fn = "none"
    /\ cal_year = 0
    /\ cal_month = 0
    /\ cal_day = NoDate
    /\ weeks = <<>>
    /\ found = [ok |-> FALSE, week |-> NoWeek]
    \* watch-list resolution idle
    /\ watch_pc = "idle"
    /\ groups = <<>>
    /\ watch_list = <<>>
    /\ missing = {}
    /\ to_watch = <<>>
    \* relevant_transactions idle
    /\ filter_pc = "idle"
    /\ rows = <<>>
    /\ start_date = NoDate
    /\ end_date = NoDate
    /\ filtered = <<>>
    \* report pipeline idle
    /\ rep_pc = "idle"
    /\ rep_categories = <<>>
    /\ rep_names = {}
    /\ categories_frame = <<>>
    /\ report_table = <<>>
    /\ totals_table = <<>>
    \* run() not under call
    /\ run_pc = "idle"
    /\ cfg = NoConfig
    /\ api = NoApi
    /\ events = <<>>
    /\ budget_id = None
    /\ stderr = <<>>
    /\ stdout = <<>>
    /\ files = <<>>
    /\ run_result = None
    \* transactions_to_polars idle
    /\ txn_pc = "idle"
    /\ transactions = <<>>
    /\ txn_frame = <<>>
    \* darken_hex idle
    /\ hex_pc = "idle"
    /\ hex_color = <<>>
    /\ hex_factor = 0
    /\ hex_out = <<>>

BuildVisualReportHtml ==
    /\ vis_pc = "call"
    /\ vis_html' \in build_visual_report_html(vis_report, vis_colors, WeekLabel,
                                              PlannedYear, vis_show_all)
    /\ vis_pc' = "ret"
    /\ UNCHANGED <<vis_report, vis_colors, vis_show_all, vis_others>>

VisualNext ==
    BuildVisualReportHtml

(***************************************************************************)
(* Specifications: one per group of functions, the other groups idle       *)
(***************************************************************************)
CalSpec ==
    CalInit /\ [][CalNext]_vars

WatchSpec ==
    WatchInit /\ [][WatchNext]_vars

TxnSpec ==
    TxnInit /\ [][TxnNext]_vars

FilterSpec ==
    FilterInit /\ [][FilterNext]_vars

ReportSpec ==
    ReportInit /\ [][ReportNext]_vars

RunSpec ==
    RunInit /\ [][RunNext]_vars

HexSpec ==
    HexInit /\ [][HexNext]_vars

VisualSpec ==
    VisualInit /\ [][VisualNext]_vars

(***************************************************************************)
(* Properties of the calendar partitioner                                  *)
(***************************************************************************)
Returned(fn) ==
    cal_pc = "ret" /\ cal_fn = fn

\* the segments of ws whose inclusive range week_start..week_end holds d
SegmentsHolding(ws, d) ==
    {i \in DOMAIN ws : DateLE(ws[i].week_start, d) /\ DateLE(d, ws[i].week_end)}

IsDateOf(y, dt) ==
    dt \in YearDays(y)

\* the Sunday on or before the date, found by search
SundayOnOrBefore(dt) ==
    LET k == CHOOSE k \in 0..6 : NumDaysFromSunday(DateFromEpoch(DaysFromEpoch(dt) - k)) = 0
    IN  DateFromEpoch(DaysFromEpoch(dt) - k)

\* C1: the segments of partition_year_into_month_weeks(Y), read as inclusive
\* ranges, hold every calendar day of Y exactly once and no day outside Y.
C1_FullCoverage ==
    Returned("partition_year_into_month_weeks") =>
        /\ \A i \in DOMAIN weeks :
              /\ IsDateOf(cal_year, weeks[i].week_start)
              /\ IsDateOf(cal_year, weeks[i].week_end)
        /\ \A d \in YearDays(cal_year) : Cardinality(SegmentsHolding(weeks, d)) = 1

C1_Witness ==
    /\ Returned("partition_year_into_month_weeks")
    /\ IsLeapYear(cal_year)
    /\ \E i \in DOMAIN weeks : weeks[i].week_end = from_ymd(cal_year, 2, 29)
    /\ \E i \in DOMAIN weeks : weeks[i].week_start = from_ymd(cal_year, 3, 1)

\* C2: in every segment week_start is a Sunday or the first day of the
\* segment's month, week_end is a Saturday or the last day of that month, and
\* week_start is a Sunday or week_end is a Saturday.
C2_Boundaries ==
    (Returned("partition_year_into_month_weeks") \/ Returned("month_weeks")) =>
        \A i \in DOMAIN weeks :
            LET w               == weeks[i]
                start_is_sunday == NumDaysFromSunday(w.week_start) = 0
                end_is_saturday == NumDaysFromSunday(w.week_end) = 6
            IN  /\ start_is_sunday \/ w.week_start = from_ymd(cal_year, w.month, 1)
                /\ end_is_saturday
                   \/ w.week_end = from_ymd(cal_year, w.month, MonthLength(cal_year, w.month))
                /\ start_is_sunday \/ end_is_saturday

C2_Witness ==
    /\ Returned("partition_year_into_month_weeks")
    /\ \E i \in DOMAIN weeks :
          /\ NumDaysFromSunday(weeks[i].week_start) # 0
          /\ weeks[i].week_start.day = 1
    /\ \E i \in DOMAIN weeks :
          /\ NumDaysFromSunday(weeks[i].week_end) # 6
          /\ weeks[i].week_end.day = MonthLength(cal_year, weeks[i].month)

\* C3: week_number = floor((previous_sunday(week_start) - previous_sunday(Jan 1))
\* / 7) + 1 for every segment, and week_number never decreases along the
\* returned sequence.
C3_WeekNumbers ==
    Returned("partition_year_into_month_weeks") =>
        /\ \A i \in DOMAIN weeks :
              weeks[i].week_number =
                  (NumDaysBetween(SundayOnOrBefore(weeks[i].week_start),
                                  SundayOnOrBefore(from_ymd(cal_year, 1, 1))) \div 7) + 1
        /\ \A i \in 1..(Len(weeks) - 1) : weeks[i].week_number <= weeks[i + 1].week_number

C3_Witness ==
    /\ Returned("partition_year_into_month_weeks")
    /\ \E i \in 1..(Len(weeks) - 1) : weeks[i].week_number = weeks[i + 1].week_number
    /\ \E i \in 1..(Len(weeks) - 1) : weeks[i].week_number < weeks[i + 1].week_number
    /\ weeks[Len(weeks)].week_number = 54

\* C4: month_week_for_date(D) returns a segment W with
\* W.week_start <= D <= W.week_end and W.month = D.month, and W is an element
\* of month_weeks(D.year, D.month).
C4_ResolverCorrect ==
    Returned("month_week_for_date") =>
        /\ found.ok
        /\ DateLE(found.week.week_start, cal_day)
        /\ DateLE(cal_day, found.week.week_end)
        /\ found.week.month = cal_day.month
        /\ LET mw == month_weeks(cal_day.year, cal_day.month)
           IN  \E i \in DOMAIN mw : mw[i] = found.week

C4_Witness ==
    /\ Returned("month_week_for_date")
    /\ found.ok
    /\ DateLT(found.week.week_start, cal_day)
    /\ DateLT(cal_day, found.week.week_end)
    /\ found.week.week_number > 1

\* C5: month_week_for_date never takes its "not found" branch: it returns Ok
\* for every valid calendar date.
C5_NotFoundUnreachable ==
    Returned("month_week_for_date") => found.ok

C5_Witness ==
    /\ Returned("month_week_for_date")
    /\ found.ok
    /\ cal_day = from_ymd(MinYear, 12, 31)
    /\ found.week.week_start = cal_day

\* C6: month_weeks(year, month) is the subsequence of
\* partition_year_into_month_weeks(year) with that month, in the same order
\* with week_number strictly increasing, and its segments hold every day of the
\* month exactly once, from the first to the last day of the month.
C6_MonthWeeks ==
    Returned("month_weeks") =>
        /\ weeks = SelectSeq(partition_year_into_month_weeks(cal_year),
                             LAMBDA w : w.month = cal_month)
        /\ \A i \in 1..(Len(weeks) - 1) : weeks[i].week_number < weeks[i + 1].week_number
        /\ \A i \in DOMAIN weeks :
              /\ weeks[i].week_start \in MonthDays(cal_year, cal_month)
              /\ weeks[i].week_end \in MonthDays(cal_year, cal_month)
        /\ \A d \in MonthDays(cal_year, cal_month) :
              Cardinality(SegmentsHolding(weeks, d)) = 1
        /\ Len(weeks) > 0
        /\ weeks[1].week_start = from_ymd(cal_year, cal_month, 1)
        /\ weeks[Len(weeks)].week_end =
              from_ymd(cal_year, cal_month, MonthLength(cal_year, cal_month))

C6_Witness ==
    /\ Returned("month_weeks")
    /\ cal_month = 2
    /\ Len(weeks) = 5
    /\ NumDaysFromSunday(weeks[1].week_start) # 0
    /\ weeks[5].week_end = from_ymd(cal_year, 2, 29)
    /\ NumDaysFromSunday(weeks[5].week_end) # 6

(***************************************************************************)
(* Properties of watch-list resolution                                     *)
(***************************************************************************)
WatchKeys ==
    {watch_list[i].key : i \in DOMAIN watch_list}

FetchedGroupNames ==
    {groups[i].name : i \in DOMAIN groups}

\* the positions <<g, c>> of the visible categories of the watched groups
WatchedPositions ==
    {p \in UNION {{<<g, c>> : c \in DOMAIN groups[g].categories} : g \in DOMAIN groups} :
        /\ groups[p[1]].name \in WatchKeys
        /\ ~groups[p[1]].categories[p[2]].hidden}

\* C7: get_missing_category_groups returns exactly the watch-list keys that
\* name no supplied group; it is empty iff every watch-list key names a group.
C7_MissingGroups ==
    watch_pc \in {"missing", "ret"} =>
        /\ missing = WatchKeys \ FetchedGroupNames
        /\ (missing = {}) <=> (\A k \in WatchKeys : \E i \in DOMAIN groups : groups[i].name = k)

C7_Witness ==
    /\ watch_pc = "missing"
    /\ missing = {"Essentials"}
    /\ WatchKeys = {"Essentials", "Fun"}
    /\ Len(groups) = 2

\* C8: get_categories_to_watch returns, in ledger order, exactly the categories
\* that are not hidden and belong to a group named by a watch-list key; nothing
\* is deduplicated.
C8_CategoriesToWatch ==
    watch_pc = "ret" =>
        /\ ToSet(to_watch) = {groups[p[1]].categories[p[2]] : p \in WatchedPositions}
        /\ Len(to_watch) = Cardinality(WatchedPositions)
        /\ \A i, j \in DOMAIN to_watch : i < j => to_watch[i].id < to_watch[j].id

C8_Witness ==
    /\ watch_pc = "ret"
    /\ \E i, j \in DOMAIN to_watch :
          /\ to_watch[i].name = to_watch[j].name
          /\ to_watch[i].id \div 10 # to_watch[j].id \div 10
    /\ \E g \in DOMAIN groups : \E c \in DOMAIN groups[g].categories :
          groups[g].name \in WatchKeys /\ groups[g].categories[c].hidden

(***************************************************************************)
(* Properties of the transaction frame                                     *)
(***************************************************************************)
CategorisedSubs(txn) ==
    {i \in DOMAIN txn.subtransactions : txn.subtransactions[i].category_name.some}

\* the number of rows the claim gives a transaction
Contribution(txn) ==
    IF Len(txn.subtransactions) >= 1 THEN Cardinality(CategorisedSubs(txn))
    ELSE IF txn.category_name.some THEN 1
    ELSE 0

\* the number of rows the claim gives the first k transactions
RECURSIVE ContributionUpTo(_)
ContributionUpTo(k) ==
    IF k = 0 THEN 0
    ELSE ContributionUpTo(k - 1) + Contribution(transactions[k])

\* C9: a transaction with subtransactions contributes one row per
\* subtransaction that has a category_name and none for the others; a
\* transaction without subtransactions contributes one row if it has a
\* category_name and none otherwise.
C9_Expansion ==
    txn_pc = "ret" =>
        /\ Len(txn_frame) = ContributionUpTo(Len(transactions))
        /\ \A k \in DOMAIN transactions :
              \A i \in (ContributionUpTo(k - 1) + 1)..ContributionUpTo(k) :
                  IF Len(transactions[k].subtransactions) >= 1
                  THEN \E j \in CategorisedSubs(transactions[k]) :
                          transactions[k].subtransactions[j].category_name
                              = Some(txn_frame[i].category_name)
                  ELSE transactions[k].category_name = Some(txn_frame[i].category_name)

C9_Witness ==
    /\ txn_pc = "ret"
    /\ Len(transactions) = 2
    /\ Len(transactions[1].subtransactions) = 2
    /\ Cardinality(CategorisedSubs(transactions[1])) = 1
    /\ transactions[1].category_name.some
    /\ transactions[2].subtransactions = <<>>
    /\ ~transactions[2].category_name.some
    /\ Len(txn_frame) = 1

(***************************************************************************)
(* Properties of the window filter                                         *)
(***************************************************************************)
\* the multiset of the elements of a sequence
BagOfSeq(s) ==
    [x \in ToSet(s) |-> Cardinality({i \in DOMAIN s : s[i] = x})]

\* a frame row read back with the date of its day count
ReadBack(frame) ==
    [i \in DOMAIN frame |->
        [date          |-> DateFromEpoch(frame[i].date),
         amount        |-> frame[i].amount,
         payee_name    |-> frame[i].payee_name,
         category_name |-> frame[i].category_name]]

InWindow(r) ==
    DateLE(start_date, r.date) /\ DateLE(r.date, end_date)

\* C10: for start <= end, relevant_transactions keeps exactly the multiset of
\* rows dated within start..end, both bounds included, with amount, payee and
\* category unchanged.
C10_WindowFilter ==
    (filter_pc = "ret" /\ DateLE(start_date, end_date)) =>
        BagOfSeq(ReadBack(filtered)) = BagOfSeq(SelectSeq(rows, InWindow))

C10_Witness ==
    /\ filter_pc = "ret"
    /\ start_date.month # end_date.month
    /\ Len(rows) = 3
    /\ rows[1].date = AddDays(end_date, 1)
    /\ rows[2].date = start_date
    /\ rows[3].date = end_date
    /\ Len(filtered) = 2

(***************************************************************************)
(* Properties of the report table and of the group totals                  *)
(***************************************************************************)
ReportBuilt ==
    rep_pc \in {"report", "ret"}

\* thousandths of the rows 1..k of the transaction frame's source that have
\* the category and are dated inside the window
RECURSIVE SpentUpTo(_, _)
SpentUpTo(name, k) ==
    IF k = 0 THEN 0
    ELSE SpentUpTo(name, k - 1)
         + (IF rows[k].category_name = name /\ InWindow(rows[k])
            THEN rows[k].amount.num
            ELSE 0)

\* C11: the spent of a report row with category C is the sum of the amounts of
\* the transaction rows with category C dated inside the window when C is in
\* the watched name set, and 0 when there is no such row or C is not watched.
C11_SpendSum ==
    ReportBuilt =>
        \A i \in DOMAIN report_table :
            report_table[i].spent =
                Display(IF report_table[i].category_name \in rep_names
                        THEN SpentUpTo(report_table[i].category_name, Len(rows))
                        ELSE 0)

C11_Witness ==
    /\ ReportBuilt
    /\ Len(rows) = 2
    /\ rows[1] # rows[2]
    /\ \E i, j \in DOMAIN report_table :
          /\ report_table[i].spent = Display(-22750)
          /\ report_table[j].spent = Display(0)
          /\ report_table[j].category_name \in rep_names

\* the columns build_report_table takes over from the category frame
CategoryColumns(r) ==
    [category_group_name |-> r.category_group_name,
     category_name       |-> r.category_name,
     budgeted            |-> r.budgeted,
     balance             |-> r.balance,
     goal_cadence        |-> r.goal_cadence]

\* C12: the report table has exactly one row for each row of the category
\* frame, with that row's group, name, budgeted, balance and cadence label,
\* whether or not a transaction matches it.
C12_NoCategoryDropped ==
    ReportBuilt =>
        /\ Len(report_table) = Len(categories_frame)
        /\ BagOfSeq([i \in DOMAIN report_table |-> CategoryColumns(report_table[i])])
               = BagOfSeq([i \in DOMAIN categories_frame |->
                              CategoryColumns(categories_frame[i])])

C12_Witness ==
    /\ ReportBuilt
    /\ Len(categories_frame) = 2
    /\ Len(filtered) = 1
    /\ \E i, j \in DOMAIN report_table :
          /\ report_table[i].category_name = filtered[1].category_name
          /\ report_table[i].spent # Display(0)
          /\ report_table[j].category_name # filtered[1].category_name
          /\ report_table[j].spent = Display(0)

\* C13: consecutive rows of the report table ascend on (group_name,
\* category_name) in the byte order of the strings.
C13_ReportSorted ==
    ReportBuilt =>
        \A i \in 1..(Len(report_table) - 1) :
            \/ StrLT(report_table[i].category_group_name,
                     report_table[i + 1].category_group_name)
            \/ /\ report_table[i].category_group_name
                      = report_table[i + 1].category_group_name
               /\ StrLE(report_table[i].category_name, report_table[i + 1].category_name)

\* an upper-case name before a lower-case one of the same group, supplied in
\* the other order
C13_Witness ==
    /\ ReportBuilt
    /\ Len(report_table) = 2
    /\ categories_frame[1].category_name = "dining"
    /\ categories_frame[2].category_name = "Rent"
    /\ report_table[1].category_group_name = report_table[2].category_group_name
    /\ report_table[1].category_name = "Rent"
    /\ report_table[2].category_name = "dining"

\* thousandths of column c over the report rows 1..k of the groups G
RECURSIVE ColumnUpTo(_, _, _)
ColumnUpTo(c, G, k) ==
    IF k = 0 THEN 0
    ELSE ColumnUpTo(c, G, k - 1)
         + (IF report_table[k].category_group_name \in G
            THEN report_table[k][c].num
            ELSE 0)

ReportGroupNames ==
    {report_table[i].category_group_name : i \in DOMAIN report_table}

\* row t of the totals table carries the sums of the report rows of the groups G
CarriesSums(t, G) ==
    /\ t.budgeted = Display(ColumnUpTo("budgeted", G, Len(report_table)))
    /\ t.spent = Display(ColumnUpTo("spent", G, Len(report_table)))
    /\ t.balance = Display(ColumnUpTo("balance", G, Len(report_table)))

\* C14: for every group name of the report table the totals table has a row
\* with the sums of budgeted, spent and balance over that group's rows, and it
\* has a row named "Total" with the sums over all the report rows.
C14_TotalsSums ==
    rep_pc = "ret" =>
        /\ \A g \in ReportGroupNames :
              \E k \in 1..(Len(totals_table) - 1) :
                  /\ totals_table[k].category_group_name = g
                  /\ CarriesSums(totals_table[k], {g})
        /\ \E k \in DOMAIN totals_table :
              /\ totals_table[k].category_group_name = "Total"
              /\ CarriesSums(totals_table[k], ReportGroupNames)

C14_Witness ==
    /\ rep_pc = "ret"
    /\ Len(report_table) = 2
    /\ report_table[1].category_group_name # report_table[2].category_group_name
    /\ report_table[1].spent # Display(0)
    /\ report_table[2].spent # Display(0)
    /\ Len(totals_table) = 3
    /\ totals_table[3].spent # totals_table[1].spent
    /\ totals_table[3].spent # totals_table[2].spent

\* C15: the rows before the last are the group rows, one for each group name
\* of the report table, ascending by name; the last row is "Total", also when
\* a group name sorts after "Total".
C15_TotalLast ==
    rep_pc = "ret" =>
        /\ Len(totals_table) = Cardinality(ReportGroupNames) + 1
        /\ totals_table[Len(totals_table)].category_group_name = "Total"
        /\ {totals_table[k].category_group_name : k \in 1..(Len(totals_table) - 1)}
               = ReportGroupNames
        /\ \A k \in 1..(Len(totals_table) - 2) :
              StrLT(totals_table[k].category_group_name,
                    totals_table[k + 1].category_group_name)

C15_Witness ==
    /\ rep_pc = "ret"
    /\ Len(totals_table) = 3
    /\ totals_table[1].category_group_name = "Essentials"
    /\ totals_table[2].category_group_name = "bills"
    /\ totals_table[3].category_group_name = "Total"

\* C16: the label is "monthly" exactly when goal_target is present and
\* goal_cadence is 1, and "annual" in every other case.
C16_CadenceLabel ==
    rep_pc \in {"cats", "report", "ret"} =>
        /\ Len(categories_frame) = Len(rep_categories)
        /\ \A i \in DOMAIN rep_categories :
              /\ categories_frame[i].goal_cadence \in {"monthly", "annual"}
              /\ (categories_frame[i].goal_cadence = "monthly") <=>
                     /\ rep_categories[i].goal_target.some
                     /\ rep_categories[i].goal_cadence.some
                     /\ rep_categories[i].goal_cadence.val = 1

\* one category with cadence 1 and a target, one with cadence 1 and no target
C16_Witness ==
    /\ rep_pc = "cats"
    /\ Len(rep_categories) = 2
    /\ rep_categories[1].goal_cadence = Some(1)
    /\ rep_categories[1].goal_target.some
    /\ categories_frame[1].goal_cadence = "monthly"
    /\ rep_categories[2].goal_cadence = Some(1)
    /\ ~rep_categories[2].goal_target.some
    /\ categories_frame[2].goal_cadence = "annual"

(***************************************************************************)
(* Segments of one window                                                  *)
(***************************************************************************)
\* the positions of the segments the window numbered k yielded
SegmentsOfWindow(k) ==
    {i \in DOMAIN weeks : weeks[i].week_number = k}

\* C20: every window of the partition yields one or two segments; two
\* segments of a window are adjacent, of months m and m + 1, the first ending
\* on the last day of m and the second starting on the first day of m + 1.
C20_AtMostTwoSegments ==
    Returned("partition_year_into_month_weeks") =>
        \A k \in 1..weeks[Len(weeks)].week_number :
            /\ Cardinality(SegmentsOfWindow(k)) \in {1, 2}
            /\ \A i, j \in SegmentsOfWindow(k) :
                  i < j =>
                      /\ j = i + 1
                      /\ weeks[j].month = weeks[i].month + 1
                      /\ weeks[i].week_end
                             = from_ymd(cal_year, weeks[i].month,
                                        MonthLength(cal_year, weeks[i].month))
                      /\ weeks[j].week_start = from_ymd(cal_year, weeks[j].month, 1)

\* 2084: 54 windows, the sixth split between January and February
C20_Witness ==
    /\ Returned("partition_year_into_month_weeks")
    /\ weeks[Len(weeks)].week_number = 54
    /\ Cardinality(SegmentsOfWindow(1)) = 1
    /\ \E i \in SegmentsOfWindow(6) :
          /\ weeks[i].week_end = from_ymd(cal_year, 1, 31)
          /\ weeks[i + 1].week_start = from_ymd(cal_year, 2, 1)
          /\ weeks[i + 1].week_number = 6

(***************************************************************************)
(* Properties of run()                                                     *)
(***************************************************************************)
FailedCall(e) ==
    e.kind = "call" /\ ~e.ok

\* C17: once a call of the data source has failed, run() has returned an
\* error: that call is the last thing run() did (no call is repeated, none
\* follows) and nothing was printed on standard output or written to a file.
C17_FailurePropagates ==
    \A i \in DOMAIN events :
        FailedCall(events[i]) =>
            /\ i = Len(events)
            /\ run_pc = "err"
            /\ run_result.some
            /\ ~run_result.val.ok
            /\ stdout = <<>>
            /\ files = <<>>

\* get_transactions fails after three month categories were fetched
C17_Witness ==
    /\ run_pc = "err"
    /\ Len(rep_categories) = 3
    /\ events[Len(events)] = Call("get_transactions", FALSE)
    /\ Cardinality({i \in DOMAIN events : events[i].op = "get_month_category"}) = 3

GroupsFetched ==
    \E i \in DOMAIN events : events[i] = Call("get_category_groups", TRUE)

\* the watch-list without the keys that name no fetched group
PresentWatchList ==
    SelectSeq(cfg.category_group_watch_list, LAMBDA e : e.key \notin missing)

\* the report tables run() can build from what the data source holds when
\* the watch-list is wl
ReportTablesFor(wl) ==
    LET watched == get_categories_to_watch(api.category_groups, wl)
        fetched == [i \in DOMAIN watched |-> MonthCategory(api, watched[i].id)]
    IN  build_report_table(
            categories_to_polars(fetched),
            relevant_transactions(transactions_to_polars(api.transactions),
                                  start_date, end_date),
            {fetched[i].name : i \in DOMAIN fetched})

\* C18: a watch-list key that names no fetched group gives a warning and
\* nothing else: run() stops only on a failed call or a failed write, the
\* categories watched and the report table are those of the watch-list
\* without the key.
C18_MissingNotFatal ==
    GroupsFetched =>
        /\ missing = ToSet(Keys(cfg.category_group_watch_list))
                         \ {groups[i].name : i \in DOMAIN groups}
        /\ Len(stderr) = (IF missing = {} THEN 0 ELSE 1)
        /\ \A i \in DOMAIN stderr : ToSet(stderr[i].names) = missing
        /\ to_watch = get_categories_to_watch(groups, PresentWatchList)
        /\ run_pc = "err" => (FailedCall(events[Len(events)]) \/ stdout # <<>>)
        /\ run_pc \in {"output", "done"} => report_table \in ReportTablesFor(PresentWatchList)

C18_Witness ==
    /\ run_pc = "done"
    /\ missing = {"Essentials"}
    /\ Len(stderr) = 1
    /\ Len(report_table) = 1
    /\ report_table[1].category_group_name = "Fun"
    /\ report_table[1].spent # ZeroF
    /\ stdout # <<>>

AggregationOps ==
    {"transactions_to_polars", "relevant_transactions", "build_report_table",
     "build_category_group_totals_table"}

ResolutionOps ==
    {"get_missing_category_groups", "get_categories_to_watch", "month_week_for_date"}

\* C19 as stated: no call of the data source comes after a core step
C19_NoCallAfterCore ==
    \A i, j \in DOMAIN events :
        (i < j /\ events[i].kind = "core") => events[j].kind # "call"

\* C19, amended: get_budgets and get_category_groups come before every core
\* step; get_month_category and get_transactions come after the watch-list
\* and the week are resolved, get_transactions also after
\* categories_to_polars; no call of the data source comes after a step of the
\* aggregation of the transactions.
C19_CallsBeforeAggregation ==
    /\ \A i, j \in DOMAIN events :
          i < j =>
              /\ events[i].op \in AggregationOps => events[j].kind # "call"
              /\ events[j].op \in {"get_budgets", "get_category_groups"}
                     => events[i].kind # "core"
    /\ \A j \in DOMAIN events :
          /\ events[j].op \in {"get_month_category", "get_transactions"} =>
                 \A op \in ResolutionOps : \E i \in 1..(j - 1) : events[i].op = op
          /\ events[j].op = "get_transactions" =>
                 \E i \in 1..(j - 1) : events[i].op = "categories_to_polars"

C19_Witness ==
    /\ run_pc = "done"
    /\ Cardinality({i \in DOMAIN events : events[i].op = "get_month_category"}) = 3
    /\ events[Len(events)].op = "build_category_group_totals_table"
    /\ Len(filtered) = 1

(***************************************************************************)
(* Properties of the rows of the transaction frame                         *)
(***************************************************************************)
\* the transaction the i-th row of the frame comes from: the first one whose
\* rows, counted with those of the transactions before it, reach i
SourceTransaction(i) ==
    CHOOSE k \in DOMAIN transactions :
        ContributionUpTo(k - 1) < i /\ i <= ContributionUpTo(k)

\* the n-th subtransaction of txn, in order, among those with a category_name
NthCategorised(txn, n) ==
    CHOOSE j \in CategorisedSubs(txn) :
        Cardinality({h \in CategorisedSubs(txn) : h <= j}) = n

\* C21: the i-th row of the frame comes from the i-th categorised item of the
\* input read in order (transactions in order, subtransactions in order within
\* each); a row of a subtransaction carries the parent's date, the
\* subtransaction's own amount and the subtransaction's payee if present, else
\* the parent's, else none; a row of a transaction without subtransactions
\* carries its own date, amount and payee.
C21_RowFields ==
    txn_pc = "ret" =>
        \A i \in DOMAIN txn_frame :
            LET txn == transactions[SourceTransaction(i)]
                row == ReadBack(txn_frame)[i]
            IN  /\ row.date = txn.date
                /\ IF txn.subtransactions # <<>>
                   THEN LET sub == txn.subtransactions[
                                NthCategorised(txn, i - ContributionUpTo(SourceTransaction(i) - 1))]
                        IN  /\ row.amount = Display(sub.amount)
                            /\ row.payee_name =
                                 (IF sub.payee_name.some THEN sub.payee_name
                                  ELSE IF txn.payee_name.some THEN txn.payee_name
                                  ELSE None)
                            /\ Some(row.category_name) = sub.category_name
                   ELSE /\ row.amount = Display(txn.amount)
                        /\ row.payee_name = txn.payee_name
                        /\ Some(row.category_name) = txn.category_name

\* a split whose two categorised subtransactions differ in payee and fall back
\* on the parent's payee, before a plain transaction of another date
C21_Witness ==
    /\ txn_pc = "ret"
    /\ Len(transactions) = 2
    /\ Len(transactions[1].subtransactions) = 2
    /\ Cardinality(CategorisedSubs(transactions[1])) = 2
    /\ transactions[1].payee_name = Some("Shop")
    /\ transactions[1].subtransactions[1].payee_name = None
    /\ transactions[1].subtransactions[2].payee_name = Some("Cafe")
    /\ transactions[2].subtransactions = <<>>
    /\ transactions[2].category_name.some
    /\ transactions[2].date # transactions[1].date
    /\ Len(txn_frame) = 3
    /\ txn_frame[1].payee_name = Some("Shop")
    /\ txn_frame[2].payee_name = Some("Cafe")
    /\ txn_frame[3].amount = Display(transactions[2].amount)

(***************************************************************************)
(* The overall row against the group rows of the totals table              *)
(***************************************************************************)
\* the sum of column c over the first k rows of the totals table, in thousandths
RECURSIVE TotalsColumnUpTo(_, _)
TotalsColumnUpTo(c, k) ==
    IF k = 0 THEN 0
    ELSE TotalsColumnUpTo(c, k - 1) + totals_table[k][c].num

\* C22: the overall row of the totals table, its last row "Total", equals in
\* budgeted, spent and balance the sum of the group rows before it.
C22_TotalIsSumOfGroups ==
    rep_pc = "ret" =>
        LET n == Len(totals_table)
        IN  /\ n >= 1
            /\ totals_table[n].category_group_name = "Total"
            /\ \A c \in {"budgeted", "spent", "balance"} :
                  totals_table[n][c] = Display(TotalsColumnUpTo(c, n - 1))

\* two groups, one of them itself named "Total", one of the rows without spend
C22_Witness ==
    /\ rep_pc = "ret"
    /\ Len(report_table) = 2
    /\ report_table[1].spent # Display(0)
    /\ report_table[2].spent = Display(0)
    /\ Len(totals_table) = 3
    /\ totals_table[1].category_group_name = "Essentials"
    /\ totals_table[2].category_group_name = "Total"
    /\ totals_table[1].budgeted # Display(0)
    /\ totals_table[2].budgeted # Display(0)
    /\ totals_table[3].budgeted # totals_table[1].budgeted

(***************************************************************************)
(* run() when the watch-list names no fetched group                        *)
(***************************************************************************)
ConfiguredKeys ==
    {cfg.category_group_watch_list[i].key : i \in DOMAIN cfg.category_group_watch_list}

\* no group the data source holds is named by the watch-list
NothingWatched ==
    \A g \in DOMAIN api.category_groups : api.category_groups[g].name \notin ConfiguredKeys

\* C23: when no fetched group is named by the watch-list, the missing groups
\* are all the keys of the watch-list and no category is watched; the report
\* table then has no rows and the totals table is the single row "Total" with
\* budgeted = spent = balance = 0.
C23_NothingWatched ==
    NothingWatched =>
        /\ run_pc \in {"month", "output", "done"} =>
              /\ missing = ConfiguredKeys
              /\ to_watch = <<>>
        /\ run_pc \in {"output", "done"} =>
              /\ report_table = <<>>
              /\ totals_table = <<[category_group_name |-> "Total",
                                   budgeted            |-> Display(0),
                                   spent               |-> Display(0),
                                   balance             |-> Display(0)]>>

\* the watch-list {"Essentials"} against the only group "Fun", with
\* transactions in the week
C23_Witness ==
    /\ run_pc = "done"
    /\ ConfiguredKeys = {"Essentials"}
    /\ Len(groups) = 1
    /\ groups[1].name = "Fun"
    /\ groups[1].categories # <<>>
    /\ filtered # <<>>
    /\ missing = {"Essentials"}
    /\ Len(totals_table) = 1

(***************************************************************************)
(* darken_hex on strings that are no hex colour                            *)
(***************************************************************************)
AsciiHexDigits ==
    {"0", "1", "2", "3", "4", "5", "6", "7", "8", "9",
     "a", "b", "c", "d", "e", "f", "A", "B", "C", "D", "E", "F"}

\* '#' followed by exactly six hexadecimal digits
IsValidHexColor(value) ==
    /\ Len(value) = 7
    /\ value[1] = "#"
    /\ \A i \in 2..7 : value[i] \in AsciiHexDigits

\* C24: darken_hex returns its argument unchanged for every string that is
\* not '#' followed by exactly six hexadecimal digits.
C24_InvalidPassthrough ==
    (hex_pc = "ret" /\ ~IsValidHexColor(hex_color)) => hex_out = hex_color

(***************************************************************************)
(* The rows and totals of the visual report                                *)
(***************************************************************************)
ColouredGroups ==
    {vis_colors[i].key : i \in DOMAIN vis_colors}

\* the coloured groups that have a row in the report table
RenderedGroups ==
    {g \in ColouredGroups : \E i \in DOMAIN vis_report : vis_report[i].category_group_name = g}

\* the planned amount of a report row, in thousandths
PlannedNum(r) ==
    IF r.goal_cadence = "annual" THEN r.budgeted.num ELSE 12 * r.budgeted.num

\* planned and spent summed over the first k report rows of the groups G,
\* shown or hidden
RECURSIVE VisPlannedUpTo(_, _)
VisPlannedUpTo(G, k) ==
    IF k = 0 THEN 0
    ELSE VisPlannedUpTo(G, k - 1)
         + (IF vis_report[k].category_group_name \in G THEN PlannedNum(vis_report[k]) ELSE 0)

RECURSIVE VisSpentUpTo(_, _)
VisSpentUpTo(G, k) ==
    IF k = 0 THEN 0
    ELSE VisSpentUpTo(G, k - 1)
         + (IF vis_report[k].category_group_name \in G THEN vis_report[k].spent.num ELSE 0)

\* the total row t shows the sums over all the report rows of the groups G
ShowsSumsOf(t, G) ==
    /\ t.class_name = "total"
    /\ t.planned = format_currency(
                       [num |-> VisPlannedUpTo(G, Len(vis_report)), den |-> 1000], TRUE)
    /\ t.per_month = format_currency(
                       [num |-> VisPlannedUpTo(G, Len(vis_report)), den |-> 12000], TRUE)
    /\ t.spent = format_currency(
                       [num |-> -VisSpentUpTo(G, Len(vis_report)), den |-> 1000], TRUE)

\* C25: the category rows rendered are the report rows of the coloured groups
\* with a non-zero spent, or all of them when show_all_rows is set; whatever
\* show_all_rows is, the row "Total <group>" of each rendered group shows the
\* sums over all the report rows of the group and the final row "Total" the
\* sums over all the report rows of the rendered groups, hidden rows included.
C25_TotalsIncludeHidden ==
    vis_pc = "ret" =>
        LET body == vis_html.body_rows
        IN  /\ \A i \in DOMAIN vis_report :
                  Cardinality({k \in DOMAIN body :
                                  /\ body[k].class_name = "group"
                                  /\ body[k].category = <<vis_report[i].category_name>>})
                  = Cardinality({j \in DOMAIN vis_report :
                                  /\ vis_report[j].category_name = vis_report[i].category_name
                                  /\ vis_report[j].category_group_name \in ColouredGroups
                                  /\ (vis_show_all \/ vis_report[j].spent # Display(0))})
            /\ \A g \in RenderedGroups :
                  \E k \in DOMAIN body :
                      /\ body[k].category = <<"Total", g>>
                      /\ ShowsSumsOf(body[k], {g})
            /\ RenderedGroups # {} =>
                  /\ body[Len(body)].category = <<"Total">>
                  /\ ShowsSumsOf(body[Len(body)], RenderedGroups)

\* the rows of the test: Groceries with spend and another row without, both
\* monthly, rendered without the second; planned 12 * (50 + 20) = 840
C25_Witness ==
    /\ vis_pc = "ret"
    /\ ~vis_show_all
    /\ Len(vis_report) = 2
    /\ vis_report[1].category_name = "Groceries"
    /\ vis_report[1].spent = Display(-10000)
    /\ vis_report[2].category_name = "Rent"
    /\ vis_report[2].spent = Display(0)
    /\ ColouredGroups = {"Essentials"}
    /\ Len(vis_html.body_rows) = 3
    /\ vis_html.body_rows[1].category = <<"Groceries">>
    /\ vis_html.body_rows[2].category = <<"Total", "Essentials">>
    /\ vis_html.body_rows[2].planned = Some([negative |-> FALSE, pounds |-> 840, pence |-> 0])
    /\ vis_html.body_rows[2].per_month = Some([negative |-> FALSE, pounds |-> 70, pence |-> 0])
    /\ vis_html.body_rows[3].spent = Some([negative |-> FALSE, pounds |-> 10, pence |-> 0])

(***************************************************************************)
(* Watched categories of different groups with one name                    *)
(***************************************************************************)
\* two categories handed to the report pipeline have one watched name and
\* different groups
SharedNameAcrossGroups ==
    \E i, j \in DOMAIN rep_categories :
        /\ rep_categories[i].name = rep_categories[j].name
        /\ rep_categories[i].name \in rep_names
        /\ rep_categories[i].category_group_name # rep_categories[j].category_group_name

\* thousandths of the rows 1..k dated inside the window whose category is watched
RECURSIVE WatchedSpentUpTo(_)
WatchedSpentUpTo(k) ==
    IF k = 0 THEN 0
    ELSE WatchedSpentUpTo(k - 1)
         + (IF rows[k].category_name \in rep_names /\ InWindow(rows[k])
            THEN rows[k].amount.num
            ELSE 0)

\* C26: when two watched categories of different groups share a name, the
\* spent of the row "Total" is the sum of the amounts of the transaction rows
\* dated inside the window whose category is watched, each counted once.
C26_CountedOnce ==
    (rep_pc = "ret" /\ SharedNameAcrossGroups) =>
        totals_table[Len(totals_table)].spent = Display(WatchedSpentUpTo(Len(rows)))

(***************************************************************************)
(* Split transactions                                                      *)
(***************************************************************************)
\* thousandths the claim lets a transaction put into the frame: those of its
\* categorised subtransactions when it has subtransactions, else its own when
\* it has a category_name
RECURSIVE SubAmounts(_)
SubAmounts(subs) ==
    IF subs = <<>> THEN 0
    ELSE (IF Head(subs).category_name.some THEN Head(subs).amount ELSE 0)
         + SubAmounts(Tail(subs))

RECURSIVE AmountsUpTo(_)
AmountsUpTo(k) ==
    IF k = 0 THEN 0
    ELSE AmountsUpTo(k - 1)
         + (IF transactions[k].subtransactions # <<>>
            THEN SubAmounts(transactions[k].subtransactions)
            ELSE IF transactions[k].category_name.some THEN transactions[k].amount
            ELSE 0)

\* the rows of the frame that come from the k-th transaction
RowsOfTransaction(k) ==
    {i \in DOMAIN txn_frame : SourceTransaction(i) = k}

\* C27: a transaction with subtransactions has one row for each categorised
\* subtransaction, with that subtransaction's category and amount, and no
\* other row: none at all when no subtransaction has a category, whether or
\* not the transaction has a category_name of its own; the amounts of the
\* frame add up without the own amount of any such transaction.
C27_SplitOnlySubRows ==
    txn_pc = "ret" =>
        /\ Len(txn_frame) = ContributionUpTo(Len(transactions))
        /\ \A k \in DOMAIN transactions :
              transactions[k].subtransactions # <<>> =>
                  /\ Cardinality(RowsOfTransaction(k))
                         = Cardinality(CategorisedSubs(transactions[k]))
                  /\ \A i \in RowsOfTransaction(k) :
                        LET sub == transactions[k].subtransactions[
                                       NthCategorised(transactions[k],
                                                      i - ContributionUpTo(k - 1))]
                        IN  /\ Some(txn_frame[i].category_name) = sub.category_name
                            /\ txn_frame[i].amount = Display(sub.amount)
        /\ SumCol(txn_frame, "amount") = Display(AmountsUpTo(Len(transactions)))

\* a transaction with a category_name of its own whose two subtransactions
\* both lack one, before a plain categorised transaction
C27_Witness ==
    /\ txn_pc = "ret"
    /\ Len(transactions) = 2
    /\ transactions[1].category_name.some
    /\ Len(transactions[1].subtransactions) = 2
    /\ CategorisedSubs(transactions[1]) = {}
    /\ transactions[2].subtransactions = <<>>
    /\ transactions[2].category_name.some
    /\ Len(txn_frame) = 1
    /\ SumCol(txn_frame, "amount") = Display(transactions[2].amount)

(***************************************************************************)
(* Order of the partition and its week numbers                             *)
(***************************************************************************)
\* C28: the segments of the partition of a year are in chronological order
\* and contiguous: the first starts on Jan 1, the last ends on Dec 31, each
\* segment starts the day after the one before it ends, and each spans
\* between 1 and 7 days.
C28_Contiguous ==
    Returned("partition_year_into_month_weeks") =>
        /\ weeks # <<>>
        /\ weeks[1].week_start = [year |-> cal_year, month |-> 1, day |-> 1]
        /\ weeks[Len(weeks)].week_end = [year |-> cal_year, month |-> 12, day |-> 31]
        /\ \A i \in 1..(Len(weeks) - 1) :
              DaysFromEpoch(weeks[i + 1].week_start) = DaysFromEpoch(weeks[i].week_end) + 1
        /\ \A i \in DOMAIN weeks :
              /\ DaysFromEpoch(weeks[i].week_end) - DaysFromEpoch(weeks[i].week_start) >= 0
              /\ DaysFromEpoch(weeks[i].week_end) - DaysFromEpoch(weeks[i].week_start) <= 6

\* 2084: the first segment is the single day Jan 1, and some window is split
\* between two months
C28_Witness ==
    /\ Returned("partition_year_into_month_weeks")
    /\ cal_year = 2084
    /\ weeks[1].week_end = weeks[1].week_start
    /\ \E i \in 1..(Len(weeks) - 1) :
          /\ weeks[i].week_number = weeks[i + 1].week_number
          /\ weeks[i].month + 1 = weeks[i + 1].month
    /\ \E i \in DOMAIN weeks :
          DaysFromEpoch(weeks[i].week_end) - DaysFromEpoch(weeks[i].week_start) = 6

\* the number of windows of the year:
\* (last_window_end - anchor) / 7 + 1
WindowCount(y) ==
    LET anchor          == SundayOnOrBefore([year |-> y, month |-> 1, day |-> 1])
        last_window_end == DateFromEpoch(
                               DaysFromEpoch(SundayOnOrBefore(
                                   [year |-> y, month |-> 12, day |-> 31])) + 6)
    IN  (DaysFromEpoch(last_window_end) - DaysFromEpoch(anchor)) \div 7 + 1

\* the year is a leap year and its Jan 1 is a Saturday
LeapFromSaturday(y) ==
    /\ (y % 4 = 0 /\ y % 100 # 0) \/ y % 400 = 0
    /\ DaysFromEpoch([year |-> y, month |-> 1, day |-> 1])
           - DaysFromEpoch(SundayOnOrBefore([year |-> y, month |-> 1, day |-> 1])) = 6

\* C29: the week numbers of the partition of a year are exactly 1..N, N the
\* number of windows; N is 53 or 54, and 54 exactly when the year is a leap
\* year whose Jan 1 is a Saturday.
C29_WeekNumberRange ==
    Returned("partition_year_into_month_weeks") =>
        /\ {weeks[i].week_number : i \in DOMAIN weeks} = 1..WindowCount(cal_year)
        /\ WindowCount(cal_year) \in {53, 54}
        /\ WindowCount(cal_year) = 54 <=> LeapFromSaturday(cal_year)

\* 2084, a leap year from a Saturday, has a window 54
C29_Witness ==
    /\ Returned("partition_year_into_month_weeks")
    /\ cal_year = 2084
    /\ LeapFromSaturday(cal_year)
    /\ weeks[Len(weeks)].week_number = 54
    /\ weeks[1].week_number = 1

(***************************************************************************)
(* The overall row among the rows of the totals table                      *)
(***************************************************************************)
\* C30: the totals table has one row more than the report table has group
\* names, and exactly one of its rows is named "Total".
C30_OneTotalRow ==
    rep_pc = "ret" =>
        /\ Len(totals_table) = Cardinality(ReportGroupNames) + 1
        /\ Cardinality({k \in DOMAIN totals_table :
                           totals_table[k].category_group_name = "Total"}) = 1

====
